---- MODULE Spec2Model ----
(***************************************************************************)
(* The sorveteria backend: the in-memory SorveteriaStore (instances) and   *)
(* the service functions that validate a request and call the store; the   *)
(* controller's handlers where requests are in flight together; and the    *)
(* page's promotions section.                                              *)
(*                                                                         *)
(* Strings that the code compares or pattern-matches (times of day,        *)
(* calendar dates) are sequences of one-character strings, ordered by      *)
(* their UTF-16 code unit as JavaScript's < and >= order them.  Instants   *)
(* are minutes since 2024-03-09T00:00Z (a Saturday); an ISO timestamp is   *)
(* kept as its instant.  A rating average is kept in tenths, the only      *)
(* values parseFloat(x.toFixed(1)) can return.                             *)
(***************************************************************************)
EXTENDS Integers, Sequences, FiniteSets, TLC

VARIABLES
    sorveteria,           \* SorveteriaStore.sorveteria: the entity or NULL
    fotosCounter,         \* SorveteriaStore.fotosCounter
    depoimentosCounter,   \* SorveteriaStore.depoimentosCounter
    promocoesCounter,     \* SorveteriaStore.promocoesCounter
    agora,                \* the wall clock, in minutes since 2024-03-09T00:00Z
    fuso,                 \* local time minus UTC of the process, in minutes
    resposta,             \* what the last service call returned or threw
    pedidos               \* each client's request in flight, by the handler's position

vars == <<sorveteria, fotosCounter, depoimentosCounter, promocoesCounter,
          agora, fuso, resposta, pedidos>>

NULL == [null |-> TRUE]

\* null where the other values are strings kept as sequences of characters.
StrNull == <<"null">>

-----------------------------------------------------------------------------
(* Constants of the repository.                                            *)

NOME_MIN_LENGTH == 1
NOME_MAX_LENGTH == 200
HISTORIA_MIN_LENGTH == 200
HISTORIA_MAX_LENGTH == 800
DIFERENCIAL_MAX_LENGTH == 100
MIN_DIFERENCIAIS == 3
MAX_DIFERENCIAIS == 6
MAX_FOTOS_AMBIENTE == 12
DEPOIMENTO_MAX_LENGTH == 300
MAX_PROMOCOES == 3

FOTO_CATEGORIES == {"balcao", "atendimento", "externo", "geral"}
TIPO_PROMOCAO == {"desconto", "combo", "brinde", "especial"}
STATUS_MODERACAO == [PENDENTE |-> "pendente", APROVADO |-> "aprovado",
                     REJEITADO |-> "rejeitado"]

-----------------------------------------------------------------------------
(* Strings as the code compares them.                                      *)

Digitos == <<"0", "1", "2", "3", "4", "5", "6", "7", "8", "9">>

\* The UTF-16 code unit of each character that occurs in a time or a date.
Cod(ch) ==
    CASE ch = "-" -> 45
      [] ch = "0" -> 48 [] ch = "1" -> 49 [] ch = "2" -> 50 [] ch = "3" -> 51
      [] ch = "4" -> 52 [] ch = "5" -> 53 [] ch = "6" -> 54 [] ch = "7" -> 55
      [] ch = "8" -> 56 [] ch = "9" -> 57
      [] ch = ":" -> 58
      [] ch = "T" -> 84
      [] OTHER -> 120

EhDigito(ch) == Cod(ch) >= 48 /\ Cod(ch) <= 57

\* a < b on JavaScript strings: the first differing code unit decides, and a
\* proper prefix is smaller.
StrLt(a, b) ==
    \E i \in 1..(Len(b)) :
        /\ \A j \in 1..(i - 1) : j <= Len(a) /\ a[j] = b[j]
        /\ \/ i > Len(a)
           \/ i <= Len(a) /\ Cod(a[i]) < Cod(b[i])

StrGe(a, b) == ~StrLt(a, b)

\* String(n) for 0 <= n <= 99.
Str(n) == IF n < 10 THEN <<Digitos[n + 1]>>
          ELSE <<Digitos[(n \div 10) + 1], Digitos[(n % 10) + 1]>>

\* s.padStart(2, '0')
PadStart2(s) == IF Len(s) < 2 THEN <<"0">> \o s ELSE s

\* /^([0-1]?[0-9]|2[0-3]):[0-5][0-9]$/
HoraRegex(s) ==
    \/ /\ Len(s) = 4
       /\ EhDigito(s[1]) /\ s[2] = ":"
       /\ s[3] \in {"0", "1", "2", "3", "4", "5"} /\ EhDigito(s[4])
    \/ /\ Len(s) = 5
       /\ \/ s[1] \in {"0", "1"} /\ EhDigito(s[2])
          \/ s[1] = "2" /\ s[2] \in {"0", "1", "2", "3"}
       /\ s[3] = ":"
       /\ s[4] \in {"0", "1", "2", "3", "4", "5"} /\ EhDigito(s[5])

\* /^\d{4}-\d{2}-\d{2}$/
DataRegex(s) ==
    /\ Len(s) = 10
    /\ \A i \in {1, 2, 3, 4, 6, 7, 9, 10} : EhDigito(s[i])
    /\ s[5] = "-" /\ s[8] = "-"

-----------------------------------------------------------------------------
(* The clock: what new Date() gives at instant t in a process whose local  *)
(* time is UTC + fz minutes.                                               *)

MinutosDia == 24 * 60

DiasSemana == <<"domingo", "segunda", "terca", "quarta", "quinta", "sexta", "sabado">>

\* agora.getDay(): the local day of the week, 0 = Sunday.  Day 0 of the clock,
\* 2024-03-09, is a Saturday.
getDay(t, fz) == (((t + fz) \div MinutosDia) + 6) % 7

getHours(t, fz) == ((t + fz) % MinutosDia) \div 60

getMinutes(t, fz) == (t + fz) % 60

\* agora.toISOString().split('T')[0]: the UTC calendar date.  The clock stays
\* within March 2024.
toISODate(t) ==
    <<"2", "0", "2", "4", "-", "0", "3", "-">> \o PadStart2(Str(9 + (t \div MinutosDia)))

-----------------------------------------------------------------------------
(* Validation schemas (zod).  z.object strips the keys it does not name.   *)

horarioDiaSchema(h) ==
    /\ HoraRegex(h.abertura)
    /\ HoraRegex(h.fechamento)
    /\ h.fechado \in BOOLEAN

horariosSemanaSchema(hs) ==
    /\ DOMAIN hs = {DiasSemana[i] : i \in 1..7}
    /\ \A d \in DOMAIN hs : horarioDiaSchema(hs[d])

horarioEspecialSchema(h) ==
    /\ DataRegex(h.data)
    /\ Len(h.descricao) >= 1 /\ Len(h.descricao) <= 200
    /\ h.abertura = StrNull \/ HoraRegex(h.abertura)
    /\ h.fechamento = StrNull \/ HoraRegex(h.fechamento)
    /\ h.fechado \in BOOLEAN

\* A text the service searches for keywords is kept as its length and the set
\* of keywords it includes, each as the text spells it.
Texto(n, palavras) == [len |-> n, inclui |-> palavras]

\* String.prototype.toLowerCase on the spellings the requests use.
Minuscula(w) ==
    CASE w \in {"ORIGEM", "Origem"} -> "origem"
      [] w \in {"TRADIÇÃO", "Tradição"} -> "tradição"
      [] w \in {"QUALIDADE", "Qualidade"} -> "qualidade"
      [] w \in {"ATENDIMENTO", "Atendimento"} -> "atendimento"
      [] OTHER -> w

toLowerCase(texto) == [texto EXCEPT !.inclui = {Minuscula(w) : w \in @}]

CamposCreate == {"nomeSorveteria", "historiaSorveteria", "diferenciais",
                 "horariosSemana", "horariosEspeciais"}

CamposObrigatorios == CamposCreate \ {"horariosEspeciais"}

\* Each field's rule, shared by createSchema and updateSchema.
CampoValido(campo, v) ==
    CASE campo = "nomeSorveteria" ->
            Len(v) >= NOME_MIN_LENGTH /\ Len(v) <= NOME_MAX_LENGTH
      [] campo = "historiaSorveteria" ->
            v.len >= HISTORIA_MIN_LENGTH /\ v.len <= HISTORIA_MAX_LENGTH
      [] campo = "diferenciais" ->
            /\ Len(v) >= MIN_DIFERENCIAIS /\ Len(v) <= MAX_DIFERENCIAIS
            /\ \A i \in 1..Len(v) : v[i].len <= DIFERENCIAL_MAX_LENGTH
      [] campo = "horariosSemana" -> horariosSemanaSchema(v)
      [] campo = "horariosEspeciais" ->
            \A i \in 1..Len(v) : horarioEspecialSchema(v[i])
      [] OTHER -> TRUE

\* The parsed body keeping the keys the schema does not name.
Strip_Passthrough(body, campos) == body

\* safeParse(body).data: the body restricted to the keys the schema names.
Strip(body, campos) == [k \in (DOMAIN body) \cap campos |-> body[k]]

createSchema(body) ==
    /\ CamposObrigatorios \subseteq DOMAIN body
    /\ \A k \in (DOMAIN body) \cap CamposCreate : CampoValido(k, body[k])

\* updateSchema refined with the keyword rule of the history.
updateSchema_ComPalavras(body) ==
    /\ \A k \in (DOMAIN body) \cap CamposCreate : CampoValido(k, body[k])
    /\ "historiaSorveteria" \in DOMAIN body =>
          {"origem", "tradição", "qualidade"}
              \subseteq toLowerCase(body.historiaSorveteria).inclui

updateSchema(body) ==
    \A k \in (DOMAIN body) \cap CamposCreate : CampoValido(k, body[k])

\* z.string().url(), on the urls the requests carry.
UrlsBemFormadas == {"https://cdn.example/foto.jpg"}

fotoCreateSchema(body) ==
    /\ body.url \in UrlsBemFormadas
    /\ body.categoria \in FOTO_CATEGORIES

depoimentoCreateSchema(body) ==
    /\ Len(body.nomeCliente) >= 1 /\ Len(body.nomeCliente) <= 100
    /\ Len(body.texto) >= 1 /\ Len(body.texto) <= DEPOIMENTO_MAX_LENGTH
    /\ body.avaliacao >= 1 /\ body.avaliacao <= 5

promocaoCreateSchema(body) ==
    /\ Len(body.titulo) >= 1 /\ Len(body.titulo) <= 200
    /\ DataRegex(body.dataValidade)
    /\ body.prioridade >= 1 /\ body.prioridade <= 5
    /\ body.tipo \in TIPO_PROMOCAO

\* z.coerce.number().int().positive()
paramsSchema(id) == id > 0

statusSchema(status) ==
    status \in {STATUS_MODERACAO.PENDENTE, STATUS_MODERACAO.APROVADO,
                STATUS_MODERACAO.REJEITADO}

-----------------------------------------------------------------------------
(* SorveteriaStore: each method as the entity it leaves in the store.      *)

\* set(data) building a new entity on every call.
set_SempreNova(s, data, t) == [dateCreated |-> t, dateModified |-> t] @@ data @@ [id |-> 1]

\* set(data): the first call creates the entity with id 1; a later call
\* spreads data over the stored entity.
set(s, data, t) ==
    IF s = NULL
    THEN [dateCreated |-> t, dateModified |-> t] @@ data @@ [id |-> 1]
    ELSE [dateModified |-> t] @@ data @@ s

\* update(data) with the spread order exchanged: the stored fields win.
update_GuardadoVence(s, data, t) == [dateModified |-> t] @@ s @@ data

\* update(data), on an existing entity.
update(s, data, t) == [dateModified |-> t] @@ data @@ s

\* The identifier taken from the position in the list instead of the counter.
addFoto_IdPelaPosicao(s, foto, id, t) ==
    LET newFoto == [id |-> Len(s.fotosAmbiente) + 1, ordem |-> Len(s.fotosAmbiente) + 1] @@ foto
    IN  [s EXCEPT !.fotosAmbiente = Append(@, newFoto), !.dateModified = t]


\* The display order taken one above the highest stored one.
addFoto_OrdemSeguinte(s, foto, id, t) ==
    LET ordens  == {s.fotosAmbiente[i].ordem : i \in 1..Len(s.fotosAmbiente)}
        maior   == IF ordens = {} THEN 0 ELSE CHOOSE o \in ordens : \A p \in ordens : p <= o
        newFoto == [id |-> id, ordem |-> maior + 1] @@ foto
    IN  [s EXCEPT !.fotosAmbiente = Append(@, newFoto), !.dateModified = t]

addFoto(s, foto, id, t) ==
    LET newFoto == [id |-> id, ordem |-> Len(s.fotosAmbiente) + 1] @@ foto
    IN  [s EXCEPT !.fotosAmbiente = Append(@, newFoto), !.dateModified = t]

\* fotosAmbiente.findIndex((f) => f.id === fotoId): 0 stands for -1.
findIndexFoto(s, fotoId) ==
    LET achados == {i \in 1..Len(s.fotosAmbiente) : s.fotosAmbiente[i].id = fotoId}
    IN  IF achados = {} THEN 0
        ELSE CHOOSE i \in achados : \A j \in achados : i <= j


\* The removal renumbering the display order of the photos that remain.
removeFoto_Renumera(s, index, t) ==
    LET restam == SubSeq(s.fotosAmbiente, 1, index - 1)
                      \o SubSeq(s.fotosAmbiente, index + 1, Len(s.fotosAmbiente))
    IN  [s EXCEPT !.fotosAmbiente = [i \in 1..Len(restam) |-> [restam[i] EXCEPT !.ordem = i]],
                  !.dateModified = t]

\* The removal without the write of dateModified.
removeFoto_SemData(s, index, t) ==
    [s EXCEPT !.fotosAmbiente = SubSeq(@, 1, index - 1) \o SubSeq(@, index + 1, Len(@))]

\* fotosAmbiente.splice(index, 1)
removeFoto(s, index, t) ==
    [s EXCEPT !.fotosAmbiente = SubSeq(@, 1, index - 1) \o SubSeq(@, index + 1, Len(@)),
              !.dateModified = t]

RECURSIVE Soma(_)
\* aprovados.reduce((acc, d) => acc + d.avaliacao, 0)
Soma(ds) == IF ds = <<>> THEN 0 ELSE Head(ds).avaliacao + Soma(Tail(ds))

\* The filter keeping every testimonial that is not rejected.
Aprovado_NaoRejeitado(d) == d.statusModeracao # STATUS_MODERACAO.REJEITADO

Aprovado(d) == d.statusModeracao = STATUS_MODERACAO.APROVADO

\* parseFloat((soma / n).toFixed(1)), in tenths.  toFixed(1) takes the nearest
\* tenth of the double soma / n and the larger one on a tie; for n < 20 every
\* tie of soma / n is a multiple of 1/4, which the double holds exactly.
toFixed1(soma, n) == (20 * soma + n) \div (2 * n)

recalcularAvaliacaoMedia(s) ==
    LET aprovados == SelectSeq(s.depoimentos, Aprovado)
    IN  IF Len(aprovados) = 0
        THEN [s EXCEPT !.avaliacaoMedia = NULL, !.totalAvaliacoes = 0]
        ELSE [s EXCEPT !.avaliacaoMedia =
                           [decimos |-> toFixed1(Soma(aprovados), Len(aprovados))],
                       !.totalAvaliacoes = Len(aprovados)]

\* addDepoimento: dateModified is not touched.
addDepoimento(s, depoimento, id, t) ==
    LET newDepoimento == [id |-> id,
                          statusModeracao |-> STATUS_MODERACAO.PENDENTE,
                          dataCriacao |-> t] @@ depoimento
    IN  recalcularAvaliacaoMedia([s EXCEPT !.depoimentos = Append(@, newDepoimento)])

\* depoimentos.find((d) => d.id === depoimentoId): 0 stands for undefined.
findDepoimento(s, depoimentoId) ==
    LET achados == {i \in 1..Len(s.depoimentos) : s.depoimentos[i].id = depoimentoId}
    IN  IF achados = {} THEN 0
        ELSE CHOOSE i \in achados : \A j \in achados : i <= j


\* The status update blanking the text of a testimonial that is set to rejected.
updateDepoimentoStatus_ApagaRejeitado(s, index, status) ==
    recalcularAvaliacaoMedia(
        [s EXCEPT !.depoimentos[index] =
             IF status = STATUS_MODERACAO.REJEITADO
             THEN [@ EXCEPT !.statusModeracao = status, !.texto = ""]
             ELSE [@ EXCEPT !.statusModeracao = status]])

updateDepoimentoStatus(s, index, status) ==
    recalcularAvaliacaoMedia([s EXCEPT !.depoimentos[index].statusModeracao = status])

addPromocao(s, promocao, id, t) ==
    LET newPromocao == [id |-> id, ativa |-> TRUE] @@ promocao
    IN  [s EXCEPT !.promocoesAtivas = Append(@, newPromocao), !.dateModified = t]

\* The filter with a strict comparison: a promotion expiring today is dropped.
PromocaoVigente_Estrito(p, hoje) == StrLt(hoje, p.dataValidade)

\* (p) => p.dataValidade >= hoje
PromocaoVigente(p, hoje) == StrGe(p.dataValidade, hoje)

\* promocoesAtivas.filter((p) => p.dataValidade >= hoje)
FiltraVigentes(ps, hoje) ==
    LET Vigente(p) == PromocaoVigente(p, hoje) IN SelectSeq(ps, Vigente)

\* dateModified refreshed by every sweep.
dateModifiedAposRemocao_Sempre(s, removidas, t) == t

\* dateModified after the sweep: refreshed only if something was removed.
dateModifiedAposRemocao(s, removidas, t) ==
    IF removidas > 0 THEN t ELSE s.dateModified

\* removePromocoesVencidas on an existing entity: the entity left and the count.
removePromocoesVencidas(s, t) ==
    LET hoje      == toISODate(t)
        antes     == Len(s.promocoesAtivas)
        restantes == FiltraVigentes(s.promocoesAtivas, hoje)
        removidas == antes - Len(restantes)
    IN  [entidade  |-> [s EXCEPT !.promocoesAtivas = restantes,
                                 !.dateModified = dateModifiedAposRemocao(s, removidas, t)],
         removidas |-> removidas]

\* horaAtual: local hours and minutes, each padded to two digits.
horaAtual(t, fz) ==
    PadStart2(Str(getHours(t, fz))) \o <<":">> \o PadStart2(Str(getMinutes(t, fz)))

\* The last entry of the date instead of the first.
findHorarioEspecial_Ultimo(hs, dataAtual) ==
    LET achados == {i \in 1..Len(hs) : hs[i].data = dataAtual}
    IN  IF achados = {} THEN NULL
        ELSE hs[CHOOSE i \in achados : \A j \in achados : i >= j]

\* horariosEspeciais.find((h) => h.data === dataAtual): NULL stands for undefined.
findHorarioEspecial(hs, dataAtual) ==
    LET achados == {i \in 1..Len(hs) : hs[i].data = dataAtual}
    IN  IF achados = {} THEN NULL
        ELSE hs[CHOOSE i \in achados : \A j \in achados : i <= j]

\* hora >= abertura && hora < fechamento
DentroDoHorario(hora, abertura, fechamento) ==
    StrGe(hora, abertura) /\ StrLt(hora, fechamento)

\* The status updateStatusFuncionamento stores, on an existing entity.
statusCalculado(s, t, fz) ==
    LET diaSemana       == DiasSemana[getDay(t, fz) + 1]
        hora            == horaAtual(t, fz)
        dataAtual       == toISODate(t)
        horarioEspecial == findHorarioEspecial(s.horariosEspeciais, dataAtual)
        horarioDia      == s.horariosSemana[diaSemana]
    IN  IF horarioEspecial # NULL /\ horarioEspecial.fechado
        THEN "fechado"
        ELSE IF /\ horarioEspecial # NULL
                /\ horarioEspecial.abertura # StrNull
                /\ horarioEspecial.fechamento # StrNull
        THEN IF DentroDoHorario(hora, horarioEspecial.abertura, horarioEspecial.fechamento)
             THEN "aberto" ELSE "fechado"
        ELSE IF horarioDia.fechado
        THEN "fechado"
        ELSE IF DentroDoHorario(hora, horarioDia.abertura, horarioDia.fechamento)
        THEN "aberto" ELSE "fechado"

\* The recompute announcing the opening while the day's opening time is
\* still ahead.
updateStatusFuncionamento_Breve(s, t, fz) ==
    IF s = NULL THEN s
    ELSE LET horarioDia == s.horariosSemana[DiasSemana[getDay(t, fz) + 1]]
         IN  [s EXCEPT !.statusFuncionamento =
                  IF /\ statusCalculado(s, t, fz) = "fechado"
                     /\ ~horarioDia.fechado
                     /\ StrLt(horaAtual(t, fz), horarioDia.abertura)
                  THEN "abrindo_em_breve" ELSE statusCalculado(s, t, fz)]

\* updateStatusFuncionamento(): nothing without an entity; dateModified is kept.
updateStatusFuncionamento(s, t, fz) ==
    IF s = NULL THEN s
    ELSE [s EXCEPT !.statusFuncionamento = statusCalculado(s, t, fz)]

-----------------------------------------------------------------------------
(* The service functions.  Each is one action: an async function without   *)
(* an await runs from its first read of the store to its last write.       *)

contadores == <<fotosCounter, depoimentosCounter, promocoesCounter>>

Responde(op, valor) ==
    resposta' = [op |-> op, code |-> "OK", valor |-> valor, em |-> agora]

\* validation.error.errors: the issues of a failed safeParse, one per field.
ZodErrors == [issues |-> "per field"]

\* throw new ServiceError(code, message, status, details): the store is as it was.
Lanca(op, code, message, details) ==
    /\ resposta' = [op |-> op, code |-> code,
                    valor |-> [message |-> message, details |-> details], em |-> agora]
    /\ UNCHANGED <<sorveteria, contadores>>

\* throw new ServiceError('VALIDATION_ERROR', `${prefixo}: ${faltam.join(', ')}`, 400):
\* the message is kept as its prefix and the names joined after it; no
\* details are passed.
LancaFaltando(op, prefixo, faltam) ==
    /\ resposta' = [op |-> op, code |-> "VALIDATION_ERROR",
                    valor |-> [message |-> prefixo, faltam |-> faltam, details |-> NULL],
                    em |-> agora]
    /\ UNCHANGED <<sorveteria, contadores>>

\* The read returning the Profile as stored, the status not recomputed.
sorveteriaGet_SemRecalculo ==
    /\ IF sorveteria = NULL
       THEN Lanca("sorveteriaGet", "NOT_FOUND", "Sorveteria information not found", NULL)
       ELSE /\ Responde("sorveteriaGet", sorveteria)
            /\ UNCHANGED <<sorveteria, contadores>>
    /\ UNCHANGED <<agora, fuso>>

sorveteriaGet ==
    /\ IF sorveteria = NULL
       THEN Lanca("sorveteriaGet", "NOT_FOUND", "Sorveteria information not found", NULL)
       ELSE /\ sorveteria' = updateStatusFuncionamento(sorveteria, agora, fuso)
            /\ Responde("sorveteriaGet", sorveteria')
            /\ UNCHANGED contadores
    /\ UNCHANGED <<agora, fuso>>

\* The history searched as it is spelled, without lower-casing.
missingElements_ComCaixa(historia) ==
    SelectSeq(<<"origem", "tradição", "qualidade">>,
              LAMBDA el : el \notin historia.inclui)

\* requiredElements.filter((el) => !historiaLower.includes(el))
missingElements(historia) ==
    SelectSeq(<<"origem", "tradição", "qualidade">>,
              LAMBDA el : el \notin toLowerCase(historia).inclui)

\* requiredDiferenciais.filter((req) => !diferenciais.some((d) => d.includes(req)))
missingDiferenciais(diferenciais) ==
    SelectSeq(<<"qualidade", "tradição", "atendimento">>,
              LAMBDA req : ~\E i \in 1..Len(diferenciais) :
                                req \in toLowerCase(diferenciais[i]).inclui)

\* The entity data sorveteriaCreateOrUpdate hands to set().
newSorveteriaData(params) ==
    [nomeSorveteria      |-> params.nomeSorveteria,
     historiaSorveteria  |-> params.historiaSorveteria,
     diferenciais        |-> params.diferenciais,
     horariosSemana      |-> params.horariosSemana,
     horariosEspeciais   |-> IF "horariosEspeciais" \in DOMAIN params
                             THEN params.horariosEspeciais ELSE <<>>,
     statusFuncionamento |-> "fechado",
     fotosAmbiente       |-> <<>>,
     depoimentos         |-> <<>>,
     avaliacaoMedia      |-> NULL,
     totalAvaliacoes     |-> 0,
     promocoesAtivas     |-> <<>>]

sorveteriaCreateOrUpdate(body) ==
    /\ IF ~createSchema(body)
       THEN Lanca("sorveteriaCreateOrUpdate", "VALIDATION_ERROR", "Validation failed", ZodErrors)
       ELSE LET params == Strip(body, CamposCreate) IN
            IF Len(missingElements(params.historiaSorveteria)) > 0
            THEN LancaFaltando("sorveteriaCreateOrUpdate", "História deve incluir",
                               missingElements(params.historiaSorveteria))
            ELSE IF Len(missingDiferenciais(params.diferenciais)) > 0
            THEN LancaFaltando("sorveteriaCreateOrUpdate", "Diferenciais devem incluir",
                               missingDiferenciais(params.diferenciais))
            ELSE /\ sorveteria' = updateStatusFuncionamento(
                                      set(sorveteria, newSorveteriaData(params), agora),
                                      agora, fuso)
                 /\ Responde("sorveteriaCreateOrUpdate", sorveteria')
                 /\ UNCHANGED contadores
    /\ UNCHANGED <<agora, fuso>>

sorveteriaUpdate(body) ==
    /\ IF ~updateSchema(body)
       THEN Lanca("sorveteriaUpdate", "VALIDATION_ERROR", "Validation failed", ZodErrors)
       ELSE IF sorveteria = NULL
       THEN Lanca("sorveteriaUpdate", "NOT_FOUND", "Sorveteria not found", NULL)
       ELSE /\ sorveteria' = updateStatusFuncionamento(
                                 update(sorveteria, Strip(body, CamposCreate), agora),
                                 agora, fuso)
            /\ Responde("sorveteriaUpdate", sorveteria')
            /\ UNCHANGED contadores
    /\ UNCHANGED <<agora, fuso>>

\* The limit test off by one: a thirteenth photo passes.
FotosNoLimite_Excede(s) == Len(s.fotosAmbiente) > MAX_FOTOS_AMBIENTE

\* sorveteria.fotosAmbiente.length >= SORVETERIA_LIMITS.MAX_FOTOS_AMBIENTE
FotosNoLimite(s) == Len(s.fotosAmbiente) >= MAX_FOTOS_AMBIENTE


\* The add taking the next identifier before it looks for the Profile.
sorveteriaAddFoto_ContaAntes(body, maxIds) ==
    /\ IF ~fotoCreateSchema(body)
       THEN Lanca("sorveteriaAddFoto", "VALIDATION_ERROR", "Validation failed", ZodErrors)
       ELSE /\ fotosCounter < maxIds
            /\ fotosCounter' = fotosCounter + 1
            /\ UNCHANGED <<depoimentosCounter, promocoesCounter>>
            /\ IF sorveteria = NULL
               THEN /\ resposta' = [op |-> "sorveteriaAddFoto", code |-> "NOT_FOUND",
                                    valor |-> [message |-> "Sorveteria not found",
                                               details |-> NULL],
                                    em |-> agora]
                    /\ UNCHANGED sorveteria
               ELSE IF FotosNoLimite(sorveteria)
               THEN /\ resposta' = [op |-> "sorveteriaAddFoto", code |-> "LIMIT_EXCEEDED",
                                    valor |-> [message |-> "Maximum of 12 photos allowed",
                                               details |-> NULL],
                                    em |-> agora]
                    /\ UNCHANGED sorveteria
               ELSE /\ sorveteria' = addFoto(sorveteria, body, fotosCounter', agora)
                    /\ Responde("sorveteriaAddFoto",
                                sorveteria'.fotosAmbiente[Len(sorveteria'.fotosAmbiente)])
    /\ UNCHANGED <<agora, fuso>>

\* maxIds bounds the identifiers the model lets the store issue.
sorveteriaAddFoto(body, maxIds) ==
    /\ IF ~fotoCreateSchema(body)
       THEN Lanca("sorveteriaAddFoto", "VALIDATION_ERROR", "Validation failed", ZodErrors)
       ELSE IF sorveteria = NULL
       THEN Lanca("sorveteriaAddFoto", "NOT_FOUND", "Sorveteria not found", NULL)
       ELSE IF FotosNoLimite(sorveteria)
       THEN Lanca("sorveteriaAddFoto", "LIMIT_EXCEEDED", "Maximum of 12 photos allowed", NULL)
       ELSE /\ fotosCounter < maxIds
            /\ fotosCounter' = fotosCounter + 1
            /\ sorveteria' = addFoto(sorveteria, body, fotosCounter', agora)
            /\ Responde("sorveteriaAddFoto",
                        sorveteria'.fotosAmbiente[Len(sorveteria'.fotosAmbiente)])
            /\ UNCHANGED <<depoimentosCounter, promocoesCounter>>
    /\ UNCHANGED <<agora, fuso>>

sorveteriaRemoveFoto(id) ==
    /\ IF ~paramsSchema(id)
       THEN Lanca("sorveteriaRemoveFoto", "VALIDATION_ERROR", "Invalid ID", ZodErrors)
       ELSE IF sorveteria = NULL \/ findIndexFoto(sorveteria, id) = 0
       THEN Lanca("sorveteriaRemoveFoto", "NOT_FOUND", "Photo not found", NULL)
       ELSE /\ sorveteria' = removeFoto(sorveteria, findIndexFoto(sorveteria, id), agora)
            /\ Responde("sorveteriaRemoveFoto", [message |-> "Photo removed successfully"])
            /\ UNCHANGED contadores
    /\ UNCHANGED <<agora, fuso>>

sorveteriaAddDepoimento(body, maxIds) ==
    /\ IF ~depoimentoCreateSchema(body)
       THEN Lanca("sorveteriaAddDepoimento", "VALIDATION_ERROR", "Validation failed", ZodErrors)
       ELSE IF sorveteria = NULL
       THEN Lanca("sorveteriaAddDepoimento", "NOT_FOUND", "Sorveteria not found", NULL)
       ELSE /\ depoimentosCounter < maxIds
            /\ depoimentosCounter' = depoimentosCounter + 1
            /\ sorveteria' = addDepoimento(sorveteria,
                                           Strip(body, {"nomeCliente", "texto", "avaliacao"}),
                                           depoimentosCounter', agora)
            /\ Responde("sorveteriaAddDepoimento",
                        sorveteria'.depoimentos[Len(sorveteria'.depoimentos)])
            /\ UNCHANGED <<fotosCounter, promocoesCounter>>
    /\ UNCHANGED <<agora, fuso>>

sorveteriaUpdateDepoimentoStatus(id, status) ==
    /\ IF ~paramsSchema(id)
       THEN Lanca("sorveteriaUpdateDepoimentoStatus", "VALIDATION_ERROR", "Invalid ID", ZodErrors)
       ELSE IF ~statusSchema(status)
       THEN Lanca("sorveteriaUpdateDepoimentoStatus", "VALIDATION_ERROR", "Invalid status",
                  ZodErrors)
       ELSE IF sorveteria = NULL \/ findDepoimento(sorveteria, id) = 0
       THEN Lanca("sorveteriaUpdateDepoimentoStatus", "NOT_FOUND", "Testimonial not found", NULL)
       ELSE /\ sorveteria' = updateDepoimentoStatus(sorveteria,
                                                    findDepoimento(sorveteria, id), status)
            /\ Responde("sorveteriaUpdateDepoimentoStatus",
                        sorveteria'.depoimentos[findDepoimento(sorveteria, id)])
            /\ UNCHANGED contadores
    /\ UNCHANGED <<agora, fuso>>

\* The limit test off by one: a fourth promotion passes.
PromocoesNoLimite_Excede(s) == Len(s.promocoesAtivas) > MAX_PROMOCOES

\* sorveteria.promocoesAtivas.length >= SORVETERIA_LIMITS.MAX_PROMOCOES
PromocoesNoLimite(s) == Len(s.promocoesAtivas) >= MAX_PROMOCOES

\* The conflict test looking only at the first stored promotion.
PrioridadeConflita_SoPrimeira(s, body) ==
    /\ body.prioridade = 1
    /\ Len(s.promocoesAtivas) > 0
    /\ s.promocoesAtivas[1].prioridade = 1


\* The conflict test passing over stored promotions that have expired.
PrioridadeConflita_SoVigentes(s, body) ==
    /\ body.prioridade = 1
    /\ \E i \in 1..Len(s.promocoesAtivas) :
          /\ s.promocoesAtivas[i].prioridade = 1
          /\ PromocaoVigente(s.promocoesAtivas[i], toISODate(agora))

\* prioridade === 1 && promocoesAtivas.some((p) => p.prioridade === 1)
PrioridadeConflita(s, body) ==
    /\ body.prioridade = 1
    /\ \E i \in 1..Len(s.promocoesAtivas) : s.promocoesAtivas[i].prioridade = 1


\* The add looking for the Profile before it validates the body.
sorveteriaAddPromocao_PerfilPrimeiro(body, maxIds) ==
    /\ IF sorveteria = NULL
       THEN Lanca("sorveteriaAddPromocao", "NOT_FOUND", "Sorveteria not found", NULL)
       ELSE IF ~promocaoCreateSchema(body)
       THEN Lanca("sorveteriaAddPromocao", "VALIDATION_ERROR", "Validation failed", ZodErrors)
       ELSE IF PromocoesNoLimite(sorveteria)
       THEN Lanca("sorveteriaAddPromocao", "LIMIT_EXCEEDED",
                  "Maximum of 3 active promotions allowed", NULL)
       ELSE IF PrioridadeConflita(sorveteria, body)
       THEN Lanca("sorveteriaAddPromocao", "PRIORITY_CONFLICT",
                  "Only one promotion can have priority 1", NULL)
       ELSE /\ promocoesCounter < maxIds
            /\ promocoesCounter' = promocoesCounter + 1
            /\ sorveteria' = addPromocao(sorveteria, body, promocoesCounter', agora)
            /\ Responde("sorveteriaAddPromocao",
                        sorveteria'.promocoesAtivas[Len(sorveteria'.promocoesAtivas)])
            /\ UNCHANGED <<fotosCounter, depoimentosCounter>>
    /\ UNCHANGED <<agora, fuso>>

sorveteriaAddPromocao(body, maxIds) ==
    /\ IF ~promocaoCreateSchema(body)
       THEN Lanca("sorveteriaAddPromocao", "VALIDATION_ERROR", "Validation failed", ZodErrors)
       ELSE IF sorveteria = NULL
       THEN Lanca("sorveteriaAddPromocao", "NOT_FOUND", "Sorveteria not found", NULL)
       ELSE IF PromocoesNoLimite(sorveteria)
       THEN Lanca("sorveteriaAddPromocao", "LIMIT_EXCEEDED",
                  "Maximum of 3 active promotions allowed", NULL)
       ELSE IF PrioridadeConflita(sorveteria, body)
       THEN Lanca("sorveteriaAddPromocao", "PRIORITY_CONFLICT",
                  "Only one promotion can have priority 1", NULL)
       ELSE /\ promocoesCounter < maxIds
            /\ promocoesCounter' = promocoesCounter + 1
            /\ sorveteria' = addPromocao(sorveteria, body, promocoesCounter', agora)
            /\ Responde("sorveteriaAddPromocao",
                        sorveteria'.promocoesAtivas[Len(sorveteria'.promocoesAtivas)])
            /\ UNCHANGED <<fotosCounter, depoimentosCounter>>
    /\ UNCHANGED <<agora, fuso>>

sorveteriaRemovePromocoesVencidas ==
    /\ IF sorveteria = NULL
       THEN /\ Responde("sorveteriaRemovePromocoesVencidas",
                        [message |-> "Expired promotions removed", removed |-> 0])
            /\ UNCHANGED sorveteria
       ELSE /\ sorveteria' = removePromocoesVencidas(sorveteria, agora).entidade
            /\ Responde("sorveteriaRemovePromocoesVencidas",
                        [message |-> "Expired promotions removed",
                         removed |-> removePromocoesVencidas(sorveteria, agora).removidas])
    /\ UNCHANGED <<contadores, agora, fuso>>

\* The recompute refusing to run without a Profile, as sorveteriaGet does.
sorveteriaUpdateStatus_ExigePerfil ==
    /\ IF sorveteria = NULL
       THEN Lanca("sorveteriaUpdateStatus", "NOT_FOUND", "Sorveteria not found", NULL)
       ELSE /\ sorveteria' = updateStatusFuncionamento(sorveteria, agora, fuso)
            /\ Responde("sorveteriaUpdateStatus",
                        [message |-> "Status updated",
                         status  |-> sorveteria'.statusFuncionamento])
            /\ UNCHANGED contadores
    /\ UNCHANGED <<agora, fuso>>

sorveteriaUpdateStatus ==
    /\ sorveteria' = updateStatusFuncionamento(sorveteria, agora, fuso)
    /\ Responde("sorveteriaUpdateStatus",
                [message |-> "Status updated",
                 status  |-> IF sorveteria' = NULL THEN "unknown"
                             ELSE sorveteria'.statusFuncionamento])
    /\ UNCHANGED <<contadores, agora, fuso>>

\* Time passes between two calls.
Tick(passo, fim) ==
    /\ agora + passo <= fim
    /\ agora' = agora + passo
    /\ UNCHANGED <<sorveteria, contadores, fuso, resposta>>

-----------------------------------------------------------------------------
(* Requests.                                                               *)

Hora(h1, h2, m1, m2) == <<h1, h2, ":", m1, m2>>

\* A time with a one-digit hour, which HoraRegex accepts too.
HoraCurta(h, m1, m2) == <<h, ":", m1, m2>>

DataDe(a, m, d) == a \o <<"-">> \o m \o <<"-">> \o d

Marco(d1, d2) == DataDe(<<"2", "0", "2", "4">>, <<"0", "3">>, <<d1, d2>>)

HorarioDia(abertura, fechamento, fechado) ==
    [abertura |-> abertura, fechamento |-> fechamento, fechado |-> fechado]

\* A week with the same hours every day.
Semana(h) == [d \in {DiasSemana[i] : i \in 1..7} |-> h]

HorarioEspecial(data, abertura, fechamento, fechado) ==
    [data |-> data, descricao |-> "Feriado", abertura |-> abertura,
     fechamento |-> fechamento, fechado |-> fechado]

HistoriaCompleta == Texto(240, {"origem", "tradição", "qualidade"})

DiferenciaisCompletos ==
    <<Texto(20, {"qualidade"}), Texto(20, {"tradição"}), Texto(20, {"atendimento"})>>

CreateBody(nome, historia, diferenciais, semana) ==
    [nomeSorveteria |-> nome, historiaSorveteria |-> historia,
     diferenciais |-> diferenciais, horariosSemana |-> semana]

SemanaPadrao == Semana(HorarioDia(Hora("1", "0", "0", "0"), Hora("2", "2", "0", "0"), FALSE))

CreateBodyPadrao ==
    CreateBody("Tommasi Sorvetes", HistoriaCompleta, DiferenciaisCompletos, SemanaPadrao)

\* The valid request, one without "origem" in the history, one without
\* "tradição" among the differentiators, one with an empty name.
CreateBodies ==
    { CreateBodyPadrao,
      CreateBody("Tommasi Sorvetes", Texto(240, {"tradição", "qualidade"}),
                 DiferenciaisCompletos, SemanaPadrao),
      CreateBody("Tommasi Sorvetes", HistoriaCompleta,
                 <<Texto(20, {"qualidade"}), Texto(20, {}), Texto(20, {"atendimento"})>>,
                 SemanaPadrao),
      CreateBody("", HistoriaCompleta, DiferenciaisCompletos, SemanaPadrao) }

PromocaoBody(dataValidade, prioridade) ==
    [titulo |-> "Casquinha em dobro", descricao |-> "Leve duas", dataValidade |-> dataValidade,
     prioridade |-> prioridade, tipo |-> "combo"]

FotoBodyPadrao == [url |-> "https://cdn.example/foto.jpg", categoria |-> "balcao"]

\* A partial update that also carries keys updateSchema does not name.
UpdateBodyComExtras ==
    [nomeSorveteria |-> "Tommasi Sorvetes", id |-> 2,
     avaliacaoMedia |-> [decimos |-> 50], totalAvaliacoes |-> 9,
     fotosAmbiente |-> [i \in 1..13 |-> [id |-> i, ordem |-> i] @@ FotoBodyPadrao],
     promocoesAtivas |-> [i \in 1..4 |-> [id |-> i, ativa |-> TRUE]
                                          @@ PromocaoBody(Marco("1", "2"), 1)]]

UpdateBodies ==
    { [nomeSorveteria |-> "Gelateria Tommasi"], UpdateBodyComExtras, [nomeSorveteria |-> ""] }

FotoBodies == { FotoBodyPadrao, [url |-> "https://cdn.example/foto.jpg", categoria |-> "cozinha"] }

DepoimentoBody(avaliacao) ==
    [nomeCliente |-> "Ana", texto |-> "Muito bom", avaliacao |-> avaliacao]

StatusEntradas == {"pendente", "aprovado", "rejeitado", "arquivado"}

-----------------------------------------------------------------------------
(* The whole service, with few identifiers of each kind.                   *)

MaxIds == 1

\* 2024-03-09 at 10:00Z, and the same hour of the next day.
Inicio == 10 * 60
DiaSeguinte == Inicio + MinutosDia

\* America/Sao_Paulo.
FusoPadrao == 0 - 180


\* The clients whose requests may be in flight together.
Clientes == {"c1", "c2"}

\* No request in flight.
Livre == [fase |-> "livre", op |-> "nenhuma", code |-> "nenhum"]

InitDe(instantes, fusos) ==
    /\ sorveteria = NULL
    /\ fotosCounter = 0
    /\ depoimentosCounter = 0
    /\ promocoesCounter = 0
    /\ agora \in instantes
    /\ fuso \in fusos
    /\ resposta = [op |-> "nenhuma", code |-> "OK", valor |-> NULL, em |-> 0]
    /\ pedidos = [c \in Clientes |-> Livre]

Init == InitDe({Inicio, DiaSeguinte}, {FusoPadrao})

Next ==
    \/ sorveteriaGet /\ UNCHANGED pedidos
    \/ \E body \in CreateBodies : sorveteriaCreateOrUpdate(body) /\ UNCHANGED pedidos
    \/ \E body \in UpdateBodies : sorveteriaUpdate(body) /\ UNCHANGED pedidos
    \/ \E body \in FotoBodies : sorveteriaAddFoto(body, MaxIds) /\ UNCHANGED pedidos
    \/ \E id \in 0..MaxIds : sorveteriaRemoveFoto(id) /\ UNCHANGED pedidos
    \/ \E body \in {DepoimentoBody(5), DepoimentoBody(6)} :
           sorveteriaAddDepoimento(body, MaxIds) /\ UNCHANGED pedidos
    \/ \E id \in 0..MaxIds, status \in StatusEntradas :
           sorveteriaUpdateDepoimentoStatus(id, status) /\ UNCHANGED pedidos
    \/ \E body \in {PromocaoBody(Marco("0", "9"), 1), PromocaoBody(Marco("1", "0"), 0)} :
           sorveteriaAddPromocao(body, MaxIds) /\ UNCHANGED pedidos
    \/ sorveteriaRemovePromocoesVencidas /\ UNCHANGED pedidos
    \/ sorveteriaUpdateStatus /\ UNCHANGED pedidos

Spec == Init /\ [][Next]_vars

-----------------------------------------------------------------------------
(* The promotions: every operation that writes the promotion list, over    *)
(* enough identifiers to fill it and refill it after a sweep.              *)

MaxPromocaoIds == 4
MaxTicks == 2

\* The clock advances half a day at a time.
Passo == 12 * 60
Fim == Inicio + MaxTicks * Passo

InitPromocoes == InitDe({Inicio}, {FusoPadrao})

PromocaoBodies ==
    { PromocaoBody(Marco("0", "9"), 1), PromocaoBody(Marco("0", "9"), 2),
      PromocaoBody(Marco("1", "0"), 1), PromocaoBody(Marco("1", "0"), 2),
      PromocaoBody(Marco("1", "0"), 0) }

NextPromocoes ==
    \/ sorveteriaGet /\ UNCHANGED pedidos
    \/ sorveteriaUpdateStatus /\ UNCHANGED pedidos
    \/ sorveteriaCreateOrUpdate(CreateBodyPadrao) /\ UNCHANGED pedidos
    \/ sorveteriaUpdate(UpdateBodyComExtras) /\ UNCHANGED pedidos
    \/ \E body \in PromocaoBodies : sorveteriaAddPromocao(body, MaxPromocaoIds) /\ UNCHANGED pedidos
    \/ sorveteriaRemovePromocoesVencidas /\ UNCHANGED pedidos
    \/ Tick(Passo, Fim) /\ UNCHANGED pedidos

SpecPromocoes == InitPromocoes /\ [][NextPromocoes]_vars

-----------------------------------------------------------------------------
(* The photo gallery, over enough identifiers to fill it, meet the limit   *)
(* and add again after a removal.                                          *)

MaxFotoIds == 13

NextFotos ==
    \/ sorveteriaCreateOrUpdate(CreateBodyPadrao) /\ UNCHANGED pedidos
    \/ sorveteriaUpdate(UpdateBodyComExtras) /\ UNCHANGED pedidos
    \/ \E body \in FotoBodies : sorveteriaAddFoto(body, MaxFotoIds) /\ UNCHANGED pedidos
    \/ \E id \in 0..2 : sorveteriaRemoveFoto(id) /\ UNCHANGED pedidos

SpecFotos == InitPromocoes /\ [][NextFotos]_vars

-----------------------------------------------------------------------------
(* The testimonials and the rating derived from them.                      *)

MaxDepoimentoIds == 4

\* The last one asks for an identifier and for the approved status.
DepoimentoBodies ==
    { DepoimentoBody(4), DepoimentoBody(5), DepoimentoBody(6),
      DepoimentoBody(5) @@ [id |-> 9, statusModeracao |-> "aprovado"] }

NextDepoimentos ==
    \/ sorveteriaGet /\ UNCHANGED pedidos
    \/ sorveteriaCreateOrUpdate(CreateBodyPadrao) /\ UNCHANGED pedidos
    \/ sorveteriaUpdate(UpdateBodyComExtras) /\ UNCHANGED pedidos
    \/ \E body \in DepoimentoBodies : sorveteriaAddDepoimento(body, MaxDepoimentoIds) /\ UNCHANGED pedidos
    \/ \E id \in 0..MaxDepoimentoIds, status \in StatusEntradas :
           sorveteriaUpdateDepoimentoStatus(id, status) /\ UNCHANGED pedidos

SpecDepoimentos == InitPromocoes /\ [][NextDepoimentos]_vars

-----------------------------------------------------------------------------
(* The operating status: the calls that set the hours or recompute the     *)
(* status, at instants of 2024-03-09 (UTC) on and around the opening and   *)
(* closing times, in two time zones.                                       *)

InstantesStatus ==
    {0, 60, 9 * 60, 9 * 60 + 30, 10 * 60, 12 * 60, 13 * 60, 15 * 60, 18 * 60 + 30,
     21 * 60 + 30, 22 * 60, 23 * 60}

Fusos == {FusoPadrao, 0}

HorariosDia ==
    { HorarioDia(Hora("1", "0", "0", "0"), Hora("2", "2", "0", "0"), FALSE),
      HorarioDia(Hora("0", "9", "0", "0"), Hora("1", "8", "3", "0"), FALSE),
      HorarioDia(HoraCurta("9", "0", "0"), Hora("2", "2", "0", "0"), FALSE),
      HorarioDia(Hora("1", "0", "0", "0"), Hora("2", "2", "0", "0"), TRUE) }

Hoje == Marco("0", "9")

FechadoHoje == HorarioEspecial(Hoje, StrNull, StrNull, TRUE)

AbertoHoje == HorarioEspecial(Hoje, Hora("1", "2", "0", "0"), Hora("2", "0", "0", "0"), FALSE)

ListasEspeciais ==
    { <<FechadoHoje>>,
      <<AbertoHoje>>,
      <<AbertoHoje, FechadoHoje>>,
      <<FechadoHoje, AbertoHoje>>,
      <<HorarioEspecial(Marco("1", "0"), StrNull, StrNull, TRUE), FechadoHoje>>,
      <<HorarioEspecial(Hoje, Hora("1", "2", "0", "0"), StrNull, FALSE), AbertoHoje>> }

CreateBodiesStatus ==
    { CreateBody("Tommasi Sorvetes", HistoriaCompleta, DiferenciaisCompletos, Semana(h))
          @@ [horariosEspeciais |-> hs] : h \in HorariosDia, hs \in ListasEspeciais }
    \cup { CreateBody("Tommasi Sorvetes", HistoriaCompleta, DiferenciaisCompletos, Semana(h))
               : h \in HorariosDia }

UpdateBodiesStatus ==
    { [horariosEspeciais |-> <<>>, statusFuncionamento |-> "abrindo_em_breve"],
      [horariosEspeciais |-> <<AbertoHoje, FechadoHoje>>],
      [horariosSemana |-> SemanaPadrao] }

InitStatus == InitDe(InstantesStatus, Fusos)

NextStatus ==
    \/ sorveteriaGet /\ UNCHANGED pedidos
    \/ \E body \in CreateBodiesStatus : sorveteriaCreateOrUpdate(body) /\ UNCHANGED pedidos
    \/ \E body \in UpdateBodiesStatus : sorveteriaUpdate(body) /\ UNCHANGED pedidos
    \/ sorveteriaUpdateStatus /\ UNCHANGED pedidos

SpecStatus == InitStatus /\ [][NextStatus]_vars

-----------------------------------------------------------------------------
(* The Profile as a whole: every operation that writes it, with items of   *)
(* each kind stored, before and after the clock has advanced.              *)

MaxItens == 1

FimPerfil == Inicio + Passo

\* A partial update of every field updateSchema and the model share; its
\* history and differentiators include none of the required keywords.
UpdateBodySemPalavras ==
    [nomeSorveteria     |-> "Gelateria Tommasi",
     historiaSorveteria |-> Texto(300, {}),
     diferenciais       |-> <<Texto(10, {}), Texto(10, {}), Texto(10, {})>>,
     horariosSemana     |-> Semana(HorarioDia(Hora("0", "9", "0", "0"),
                                               Hora("1", "8", "3", "0"), FALSE)),
     horariosEspeciais  |-> <<AbertoHoje>>]

UpdateBodiesPerfil == { UpdateBodySemPalavras, UpdateBodyComExtras }

\* A promotion that had expired the day before the clock starts.
PromocaoVencidaBody == PromocaoBody(Marco("0", "8"), 2)

NextPerfil ==
    \/ sorveteriaGet /\ UNCHANGED pedidos
    \/ sorveteriaCreateOrUpdate(CreateBodyPadrao) /\ UNCHANGED pedidos
    \/ \E body \in UpdateBodiesPerfil : sorveteriaUpdate(body) /\ UNCHANGED pedidos
    \/ sorveteriaAddFoto(FotoBodyPadrao, MaxItens) /\ UNCHANGED pedidos
    \/ \E id \in 1..MaxItens : sorveteriaRemoveFoto(id) /\ UNCHANGED pedidos
    \/ sorveteriaAddDepoimento(DepoimentoBody(5), MaxItens) /\ UNCHANGED pedidos
    \/ \E id \in 1..MaxItens : sorveteriaUpdateDepoimentoStatus(id, "aprovado") /\ UNCHANGED pedidos
    \/ sorveteriaAddPromocao(PromocaoVencidaBody, MaxItens) /\ UNCHANGED pedidos
    \/ sorveteriaRemovePromocoesVencidas /\ UNCHANGED pedidos
    \/ sorveteriaUpdateStatus /\ UNCHANGED pedidos
    \/ Tick(Passo, FimPerfil) /\ UNCHANGED pedidos

SpecPerfil == InitPromocoes /\ [][NextPerfil]_vars

-----------------------------------------------------------------------------
(* The content rules: histories and differentiators with every subset of   *)
(* the required keywords, in lower and upper case, through create-or-update *)
(* and through the partial update.                                         *)

Historias ==
    { Texto(240, palavras) : palavras \in SUBSET {"origem", "tradição", "qualidade"} }
    \cup { Texto(240, {"ORIGEM", "tradição"}),
           Texto(240, {"Origem", "TRADIÇÃO", "Qualidade"}),
           Texto(199, {"origem", "tradição", "qualidade"}),
           Texto(801, {"origem"}) }

ListasDiferenciais ==
    { DiferenciaisCompletos,
      <<Texto(20, {"QUALIDADE"}), Texto(20, {"Tradição", "atendimento"}), Texto(20, {})>>,
      <<Texto(20, {"qualidade"}), Texto(20, {}), Texto(20, {"atendimento"})>>,
      <<Texto(20, {}), Texto(20, {}), Texto(20, {})>>,
      <<Texto(20, {"qualidade"}), Texto(20, {"tradição", "atendimento"})>>,
      <<Texto(101, {"qualidade"}), Texto(20, {"tradição"}), Texto(20, {"atendimento"})>> }

CreateBodiesValidacao ==
    { CreateBody("Tommasi Sorvetes", h, DiferenciaisCompletos, SemanaPadrao) : h \in Historias }
    \cup { CreateBody("Tommasi Sorvetes", HistoriaCompleta, d, SemanaPadrao)
               : d \in ListasDiferenciais }
    \cup { CreateBody("Tommasi Sorvetes", Texto(240, {"qualidade"}),
                      <<Texto(20, {}), Texto(20, {}), Texto(20, {})>>, SemanaPadrao) }

UpdateBodiesValidacao ==
    { [historiaSorveteria |-> h] : h \in Historias }
    \cup { [diferenciais |-> d] : d \in ListasDiferenciais }

NextValidacao ==
    \/ sorveteriaGet /\ UNCHANGED pedidos
    \/ \E body \in CreateBodiesValidacao : sorveteriaCreateOrUpdate(body) /\ UNCHANGED pedidos
    \/ \E body \in UpdateBodiesValidacao : sorveteriaUpdate(body) /\ UNCHANGED pedidos

SpecValidacao == InitPromocoes /\ [][NextValidacao]_vars

-----------------------------------------------------------------------------
(* The identifiers: the operations that issue them and the ones that take  *)
(* items out of the lists, over several identifiers of each kind.          *)

MaxEmitidos == 3

NextIdentificadores ==
    \/ sorveteriaCreateOrUpdate(CreateBodyPadrao) /\ UNCHANGED pedidos
    \/ sorveteriaAddFoto(FotoBodyPadrao, MaxEmitidos) /\ UNCHANGED pedidos
    \/ \E id \in 1..MaxEmitidos : sorveteriaRemoveFoto(id) /\ UNCHANGED pedidos
    \/ sorveteriaAddDepoimento(DepoimentoBody(5), MaxEmitidos) /\ UNCHANGED pedidos
    \/ sorveteriaAddPromocao(PromocaoVencidaBody, MaxEmitidos) /\ UNCHANGED pedidos
    \/ sorveteriaRemovePromocoesVencidas /\ UNCHANGED pedidos

SpecIdentificadores == InitPromocoes /\ [][NextIdentificadores]_vars



-----------------------------------------------------------------------------
(* The page: what a component renders of the Profile it is given.          *)

\* PromocoesSection: nothing for an empty list; otherwise one card per
\* promotion, promocoesAtivas.map(...), in the order of the list.  A card is
\* kept as its key, its badge, the highlight shown for priority 1 and its
\* title.
PromocoesSection(s) ==
    IF Len(s.promocoesAtivas) = 0 THEN <<>>
    ELSE [i \in 1..Len(s.promocoesAtivas) |->
             [key      |-> s.promocoesAtivas[i].id,
              tipo     |-> s.promocoesAtivas[i].tipo,
              destaque |-> s.promocoesAtivas[i].prioridade = 1,
              titulo   |-> s.promocoesAtivas[i].titulo]]

-----------------------------------------------------------------------------
(* Requests in flight together.  A handler of the controller calls the     *)
(* service function, awaits its promise and sends the response: the        *)
(* request is received, then served, then answered.  The event loop runs   *)
(* one handler at a time up to its next suspension point.                  *)

OpsConcorrentes == {"sorveteriaAddFoto", "sorveteriaAddPromocao"}

PromocaoPrioritariaBody == PromocaoBody(Marco("1", "0"), 1)

\* The positions inside a service function at which it yields to the event
\* loop before it goes on: sorveteriaAddFoto and sorveteriaAddPromocao hold
\* no await, so there is none.
PontosDeSuspensao_AposVerificar == {"verificado"}

PontosDeSuspensao == {}

\* The service call a request makes.
Servico(op) ==
    IF op = "sorveteriaAddFoto"
    THEN sorveteriaAddFoto(FotoBodyPadrao, MaxFotoIds)
    ELSE sorveteriaAddPromocao(PromocaoPrioritariaBody, MaxPromocaoIds)

\* Every test the service function makes before it calls the store passes.
Verificado(op) ==
    /\ sorveteria # NULL
    /\ IF op = "sorveteriaAddFoto"
       THEN ~FotosNoLimite(sorveteria)
       ELSE /\ ~PromocoesNoLimite(sorveteria)
            /\ ~PrioridadeConflita(sorveteria, PromocaoPrioritariaBody)

\* The call of the store's add method and the return of its result.
Escreve(op) ==
    /\ IF op = "sorveteriaAddFoto"
       THEN /\ fotosCounter < MaxFotoIds
            /\ fotosCounter' = fotosCounter + 1
            /\ sorveteria' = addFoto(sorveteria, FotoBodyPadrao, fotosCounter', agora)
            /\ Responde(op, sorveteria'.fotosAmbiente[Len(sorveteria'.fotosAmbiente)])
            /\ UNCHANGED <<depoimentosCounter, promocoesCounter>>
       ELSE /\ promocoesCounter < MaxPromocaoIds
            /\ promocoesCounter' = promocoesCounter + 1
            /\ sorveteria' = addPromocao(sorveteria, PromocaoPrioritariaBody,
                                         promocoesCounter', agora)
            /\ Responde(op, sorveteria'.promocoesAtivas[Len(sorveteria'.promocoesAtivas)])
            /\ UNCHANGED <<fotosCounter, depoimentosCounter>>
    /\ UNCHANGED <<agora, fuso>>

\* The Profile is created once, by a request no other is in flight with.
Cria ==
    /\ sorveteria = NULL
    /\ sorveteriaCreateOrUpdate(CreateBodyPadrao)
    /\ UNCHANGED pedidos

\* The request of client c arrives.
Recebe(c, op) ==
    /\ pedidos[c].fase = "livre"
    /\ pedidos' = [pedidos EXCEPT ![c] = [fase |-> "recebido", op |-> op, code |-> "nenhum"]]
    /\ UNCHANGED <<sorveteria, contadores, agora, fuso, resposta>>

\* The event loop runs the handler of c up to its next suspension point: the
\* await of the service function's promise, or one inside the function.
Atende(c) ==
    LET p == pedidos[c] IN
    /\ p.fase \in {"recebido", "verificado"}
    /\ IF p.fase = "recebido" /\ ("verificado" \notin PontosDeSuspensao \/ ~Verificado(p.op))
       THEN /\ Servico(p.op)
            /\ pedidos' = [pedidos EXCEPT ![c] = [fase |-> "aguarda", op |-> p.op,
                                                  code |-> resposta'.code]]
       ELSE IF p.fase = "recebido"
       THEN /\ pedidos' = [pedidos EXCEPT ![c].fase = "verificado"]
            /\ UNCHANGED <<sorveteria, contadores, agora, fuso, resposta>>
       ELSE /\ Escreve(p.op)
            /\ pedidos' = [pedidos EXCEPT ![c] = [fase |-> "aguarda", op |-> p.op,
                                                  code |-> "OK"]]

\* The handler resumes after its await and sends the response.
Envia(c) ==
    /\ pedidos[c].fase = "aguarda"
    /\ pedidos' = [pedidos EXCEPT ![c] = Livre]
    /\ UNCHANGED <<sorveteria, contadores, agora, fuso, resposta>>

NextConcorrencia ==
    \/ Cria
    \/ \E c \in Clientes, op \in OpsConcorrentes : Recebe(c, op)
    \/ \E c \in Clientes : Atende(c)
    \/ \E c \in Clientes : Envia(c)

SpecConcorrencia == InitPromocoes /\ [][NextConcorrencia]_vars

-----------------------------------------------------------------------------
(* Properties.                                                             *)

Valor(ch) == Cod(ch) - 48

\* The calendar date YYYY-MM-DD as the number YYYYMMDD.
DataNumero(d) ==
    (Valor(d[1]) * 1000 + Valor(d[2]) * 100 + Valor(d[3]) * 10 + Valor(d[4])) * 10000
    + (Valor(d[6]) * 10 + Valor(d[7])) * 100
    + Valor(d[9]) * 10 + Valor(d[10])

\* The time of day H:MM or HH:MM in minutes after midnight.
HoraMinutos(h) ==
    IF Len(h) = 4
    THEN Valor(h[1]) * 60 + Valor(h[3]) * 10 + Valor(h[4])
    ELSE (Valor(h[1]) * 10 + Valor(h[2])) * 60 + Valor(h[4]) * 10 + Valor(h[5])

Prioritarias(ps) == {i \in 1..Len(ps) : ps[i].prioridade = 1}

\* C1: whatever the service operations did, the stored promotion list holds at
\* most 3 promotions and at most one of them has priority 1.
C1_PromocoesLimitadas ==
    sorveteria # NULL =>
        /\ Len(sorveteria.promocoesAtivas) <= 3
        /\ Cardinality(Prioritarias(sorveteria.promocoesAtivas)) <= 1

\* C1 witness: three promotions stored, one of priority 1, and a further add refused.
C1_ListaCheia ==
    /\ sorveteria # NULL
    /\ Len(sorveteria.promocoesAtivas) = 3
    /\ Cardinality(Prioritarias(sorveteria.promocoesAtivas)) = 1
    /\ resposta.op = "sorveteriaAddPromocao"
    /\ resposta.code = "LIMIT_EXCEEDED"

\* A step of sorveteriaAddFoto with a body the schema accepts.
AddFotoValida ==
    \E body \in FotoBodies : fotoCreateSchema(body) /\ sorveteriaAddFoto(body, MaxFotoIds)

\* C2: the stored photo list never holds more than 12 photos; a valid add with
\* 12 photos stored fails LIMIT_EXCEEDED and changes neither the list nor the
\* counter; a valid add right after a successful removal succeeds.
C2_GaleriaLimitada ==
    /\ [](sorveteria # NULL => Len(sorveteria.fotosAmbiente) <= 12)
    /\ [][(sorveteria # NULL /\ Len(sorveteria.fotosAmbiente) = 12 /\ AddFotoValida)
            => /\ resposta'.code = "LIMIT_EXCEEDED"
               /\ sorveteria' = sorveteria
               /\ fotosCounter' = fotosCounter]_vars
    /\ [][(resposta.op = "sorveteriaRemoveFoto" /\ resposta.code = "OK" /\ AddFotoValida)
            => /\ resposta'.code = "OK"
               /\ Len(sorveteria'.fotosAmbiente) = Len(sorveteria.fotosAmbiente) + 1]_vars

\* C2 witness: the gallery is full again after a thirteenth identifier was
\* issued, so an add succeeded after a removal from a full gallery.
C2_CheiaDepoisDeRemover ==
    /\ sorveteria # NULL
    /\ Len(sorveteria.fotosAmbiente) = 12
    /\ fotosCounter = 13
    /\ resposta.op = "sorveteriaAddFoto"
    /\ resposta.code = "OK"

IndicesAprovados(ds) == {i \in 1..Len(ds) : ds[i].statusModeracao = "aprovado"}

RECURSIVE SomaAvaliacoes(_, _)
SomaAvaliacoes(ds, indices) ==
    IF indices = {} THEN 0
    ELSE LET i == CHOOSE i \in indices : TRUE
         IN  ds[i].avaliacao + SomaAvaliacoes(ds, indices \ {i})

Abs(x) == IF x < 0 THEN 0 - x ELSE x

\* C3: with a Profile, totalAvaliacoes is the number of approved testimonials;
\* avaliacaoMedia is null when there is none and otherwise the tenth nearest to
\* the sum of the approved ratings divided by their number, so a testimonial
\* that is not approved (rejected after approval included) counts in neither.
C3_MediaDosAprovados ==
    sorveteria # NULL =>
        LET ds   == sorveteria.depoimentos
            n    == Cardinality(IndicesAprovados(ds))
            soma == SomaAvaliacoes(ds, IndicesAprovados(ds))
        IN  /\ sorveteria.totalAvaliacoes = n
            /\ n = 0 => sorveteria.avaliacaoMedia = NULL
            /\ n > 0 => /\ sorveteria.avaliacaoMedia # NULL
                        /\ 2 * Abs(sorveteria.avaliacaoMedia.decimos * n - 10 * soma) <= n

\* C3 witness: a testimonial was just rejected and three approved ones remain,
\* whose average is not a whole number of tenths.
C3_RejeitadoForaDaMedia ==
    /\ sorveteria # NULL
    /\ resposta.op = "sorveteriaUpdateDepoimentoStatus"
    /\ resposta.code = "OK"
    /\ resposta.valor.statusModeracao = "rejeitado"
    /\ sorveteria.totalAvaliacoes = 3
    /\ sorveteria.avaliacaoMedia = [decimos |-> 43]

\* C4: the depoimentos list that sorveteriaGet returns holds only approved
\* testimonials.
C4_GetSoAprovados ==
    (resposta.op = "sorveteriaGet" /\ resposta.code = "OK") =>
        \A i \in 1..Len(resposta.valor.depoimentos) :
            resposta.valor.depoimentos[i].statusModeracao = "aprovado"

\* The weekly-hours entry of the local day of the week at instant t.
HorarioDeHoje(s, t, fz) == s.horariosSemana[DiasSemana[getDay(t, fz) + 1]]

MinutoLocal(t, fz) == getHours(t, fz) * 60 + getMinutes(t, fz)

\* C5: for a weekly-hours entry the schema accepts, with the closed flag false
\* (and no special hours), the recomputed status is open exactly when the
\* current time of day is at or after the opening time and before the closing
\* time, and closed otherwise.
C5_AbertoNoHorario ==
    ( /\ resposta.op = "sorveteriaUpdateStatus"
      /\ sorveteria # NULL
      /\ sorveteria.horariosEspeciais = <<>>
      /\ ~HorarioDeHoje(sorveteria, resposta.em, fuso).fechado )
    => LET h == HorarioDeHoje(sorveteria, resposta.em, fuso)
           m == MinutoLocal(resposta.em, fuso)
       IN  (resposta.valor.status = "aberto")
               <=> (HoraMinutos(h.abertura) <= m /\ m < HoraMinutos(h.fechamento))

EspeciaisDeHoje(s, t) ==
    {i \in 1..Len(s.horariosEspeciais) : s.horariosEspeciais[i].data = toISODate(t)}

\* C6 as stated: when some special-hours entry dated today has the closed flag
\* set, the recomputed status is closed.
C6_AlgumFechadoHoje ==
    ( /\ resposta.op = "sorveteriaUpdateStatus"
      /\ sorveteria # NULL
      /\ \E i \in EspeciaisDeHoje(sorveteria, resposta.em) :
            sorveteria.horariosEspeciais[i].fechado )
    => resposta.valor.status = "fechado"

PrimeiroEspecialDeHoje(s, t) ==
    s.horariosEspeciais[CHOOSE i \in EspeciaisDeHoje(s, t) :
                            \A j \in EspeciaisDeHoje(s, t) : i <= j]

\* C6 amended: when the first special-hours entry dated today (the UTC date of
\* the clock) has the closed flag set, the recomputed status is closed, at
\* every time of day and for every weekly-hours entry.
C6_PrimeiroFechadoHoje ==
    ( /\ resposta.op = "sorveteriaUpdateStatus"
      /\ sorveteria # NULL
      /\ EspeciaisDeHoje(sorveteria, resposta.em) # {}
      /\ PrimeiroEspecialDeHoje(sorveteria, resposta.em).fechado )
    => resposta.valor.status = "fechado"

\* C6 witness: the first of two entries dated today is closed, the second and
\* the weekly hours would both give open, and the status returned is closed.
C6_FechadoApesarDoHorario ==
    /\ resposta.op = "sorveteriaUpdateStatus"
    /\ sorveteria # NULL
    /\ Len(sorveteria.horariosEspeciais) = 2
    /\ sorveteria.horariosEspeciais[1].data = toISODate(resposta.em)
    /\ sorveteria.horariosEspeciais[1].fechado
    /\ sorveteria.horariosEspeciais[2].data = toISODate(resposta.em)
    /\ ~sorveteria.horariosEspeciais[2].fechado
    /\ HorarioDeHoje(sorveteria, resposta.em, fuso)
           = HorarioDia(Hora("1", "0", "0", "0"), Hora("2", "2", "0", "0"), FALSE)
    /\ MinutoLocal(resposta.em, fuso) = 15 * 60
    /\ resposta.valor.status = "fechado"

HojeNumero(t) == DataNumero(toISODate(t))

Vencida(p, t) == DataNumero(p.dataValidade) < HojeNumero(t)

NaoVencida(p) == ~Vencida(p, agora)

\* C7: a sweep removes exactly the promotions whose expiry date is strictly
\* before today's date (the UTC date of the clock), keeps the others in their
\* order, and returns the number of promotions it removed.
C7_SweepExato ==
    [][(sorveteria # NULL /\ sorveteriaRemovePromocoesVencidas)
        => /\ sorveteria'.promocoesAtivas
                = SelectSeq(sorveteria.promocoesAtivas, NaoVencida)
           /\ resposta'.valor.removed
                = Cardinality({i \in 1..Len(sorveteria.promocoesAtivas) :
                                  Vencida(sorveteria.promocoesAtivas[i], agora)})]_vars

\* C7 witness: a sweep removed a promotion and kept one that expires on the
\* day of the sweep.
C7_RemoveuVencidaManteveDeHoje ==
    /\ sorveteria # NULL
    /\ resposta.op = "sorveteriaRemovePromocoesVencidas"
    /\ resposta.valor.removed >= 1
    /\ \E i \in 1..Len(sorveteria.promocoesAtivas) :
          sorveteria.promocoesAtivas[i].dataValidade = toISODate(resposta.em)

\* C8: a sweep that follows a sweep directly, on the same date, returns 0 and
\* leaves the Profile, dateModified included, as it was.
C8_SegundoSweepNadaMuda ==
    [][( /\ sorveteria # NULL
         /\ resposta.op = "sorveteriaRemovePromocoesVencidas"
         /\ toISODate(resposta.em) = toISODate(agora)
         /\ sorveteriaRemovePromocoesVencidas )
        => /\ resposta'.valor.removed = 0
           /\ sorveteria' = sorveteria]_vars

\* C8 witness: a sweep at a later time of the same day found nothing to remove
\* in a Profile that still holds a promotion, and dateModified is older than
\* that sweep.
C8_SweepSemEfeito ==
    /\ sorveteria # NULL
    /\ resposta.op = "sorveteriaRemovePromocoesVencidas"
    /\ resposta.valor.removed = 0
    /\ Len(sorveteria.promocoesAtivas) >= 1
    /\ promocoesCounter >= 2
    /\ sorveteria.dateModified < resposta.em

\* A step of sorveteriaAddPromocao with a body of priority 1 the schema accepts.
AddPromocaoPrioritaria ==
    \E body \in PromocaoBodies :
        /\ promocaoCreateSchema(body)
        /\ body.prioridade = 1
        /\ sorveteriaAddPromocao(body, MaxPromocaoIds)

\* C9 as stated: adding a promotion of priority 1 while a stored promotion has
\* priority 1 fails PRIORITY_CONFLICT; adding one right after a sweep that
\* left no promotion of priority 1 succeeds.
C9_ConflitoDePrioridade ==
    /\ [][(sorveteria # NULL
            /\ Prioritarias(sorveteria.promocoesAtivas) # {}
            /\ AddPromocaoPrioritaria)
           => /\ resposta'.code = "PRIORITY_CONFLICT"
              /\ sorveteria' = sorveteria]_vars
    /\ [][(sorveteria # NULL
            /\ resposta.op = "sorveteriaRemovePromocoesVencidas"
            /\ resposta.valor.removed >= 1
            /\ Prioritarias(sorveteria.promocoesAtivas) = {}
            /\ AddPromocaoPrioritaria)
           => /\ resposta'.code = "OK"
              /\ Prioritarias(sorveteria'.promocoesAtivas)
                    = {Len(sorveteria.promocoesAtivas) + 1}]_vars

\* C9 amended: while a stored promotion has priority 1, adding a promotion of
\* priority 1 fails PRIORITY_CONFLICT when fewer than 3 promotions are stored
\* and LIMIT_EXCEEDED when 3 are; adding one right after a sweep that left no
\* promotion of priority 1 succeeds.
C9_ConflitoOuLimite ==
    /\ [][(sorveteria # NULL
            /\ Prioritarias(sorveteria.promocoesAtivas) # {}
            /\ AddPromocaoPrioritaria)
           => /\ resposta'.code = IF Len(sorveteria.promocoesAtivas) < 3
                                  THEN "PRIORITY_CONFLICT" ELSE "LIMIT_EXCEEDED"
              /\ sorveteria' = sorveteria]_vars
    /\ [][(sorveteria # NULL
            /\ resposta.op = "sorveteriaRemovePromocoesVencidas"
            /\ resposta.valor.removed >= 1
            /\ Prioritarias(sorveteria.promocoesAtivas) = {}
            /\ AddPromocaoPrioritaria)
           => /\ resposta'.code = "OK"
              /\ Prioritarias(sorveteria'.promocoesAtivas)
                    = {Len(sorveteria.promocoesAtivas) + 1}]_vars

\* C9 witness: a promotion of priority 1 was added on the second day although
\* an earlier identifier was issued, and no older promotion of priority 1 is
\* left in the list.
C9_NovaPrioritaria ==
    /\ sorveteria # NULL
    /\ resposta.op = "sorveteriaAddPromocao"
    /\ resposta.code = "OK"
    /\ resposta.valor.prioridade = 1
    /\ resposta.valor.id >= 2
    /\ toISODate(resposta.em) = Marco("1", "0")
    /\ Prioritarias(sorveteria.promocoesAtivas) = {Len(sorveteria.promocoesAtivas)}

\* C10: the Profile that exists has id 1, a successful create-or-update
\* returns a Profile of id 1, and a Profile that exists is never absent again.
C10_PerfilUnico ==
    /\ [](sorveteria # NULL => sorveteria.id = 1)
    /\ []((resposta.op = "sorveteriaCreateOrUpdate" /\ resposta.code = "OK")
            => resposta.valor.id = 1)
    /\ [][sorveteria # NULL => sorveteria' # NULL]_vars

\* C10 witness: create-or-update answered with id 1 for a Profile that existed
\* before the call, as the photo counter shows.
C10_RecriadoComId1 ==
    /\ sorveteria # NULL
    /\ resposta.op = "sorveteriaCreateOrUpdate"
    /\ resposta.code = "OK"
    /\ resposta.valor.id = 1
    /\ fotosCounter >= 1

\* C11: a successful create-or-update on an existing Profile stores every
\* field of the request, empties the photo, testimonial and promotion lists,
\* sets the average to null and the count to 0, keeps the identifier and the
\* creation timestamp, and sets the modified timestamp to the current instant.
C11_SobrescreveTudo ==
    [][( /\ sorveteria # NULL
         /\ resposta'.op = "sorveteriaCreateOrUpdate"
         /\ resposta'.code = "OK"
         /\ agora' = agora
         /\ sorveteriaCreateOrUpdate(CreateBodyPadrao) )
        => /\ sorveteria'.nomeSorveteria = CreateBodyPadrao.nomeSorveteria
           /\ sorveteria'.historiaSorveteria = CreateBodyPadrao.historiaSorveteria
           /\ sorveteria'.diferenciais = CreateBodyPadrao.diferenciais
           /\ sorveteria'.horariosSemana = CreateBodyPadrao.horariosSemana
           /\ sorveteria'.horariosEspeciais = <<>>
           /\ sorveteria'.fotosAmbiente = <<>>
           /\ sorveteria'.depoimentos = <<>>
           /\ sorveteria'.promocoesAtivas = <<>>
           /\ sorveteria'.avaliacaoMedia = NULL
           /\ sorveteria'.totalAvaliacoes = 0
           /\ sorveteria'.id = sorveteria.id
           /\ sorveteria'.dateCreated = sorveteria.dateCreated
           /\ sorveteria'.dateModified = agora
           /\ resposta'.valor = sorveteria']_vars

\* C11 witness: create-or-update answered at a later instant than the
\* creation, after an item of each kind had been issued, and the lists are
\* empty.
C11_RecriadoMaisTarde ==
    /\ sorveteria # NULL
    /\ resposta.op = "sorveteriaCreateOrUpdate"
    /\ resposta.code = "OK"
    /\ resposta.valor = sorveteria
    /\ sorveteria.dateCreated < sorveteria.dateModified
    /\ fotosCounter = 1 /\ depoimentosCounter = 1 /\ promocoesCounter = 1
    /\ sorveteria.fotosAmbiente = <<>>
    /\ sorveteria.depoimentos = <<>>
    /\ sorveteria.promocoesAtivas = <<>>

\* The fields of the Profile a partial update may carry.
CamposDoUpdate == {"nomeSorveteria", "historiaSorveteria", "diferenciais",
                   "horariosSemana", "horariosEspeciais"}

\* C12: a partial update fails NOT_FOUND and changes nothing when no Profile
\* exists; on a Profile it stores the fields the request carries and leaves
\* every other field, the lists, the rating and the three counters as they
\* were, except the modified timestamp, set to the current instant, and the
\* recomputed status.
C12_UpdateParcial ==
    [][\A body \in UpdateBodiesPerfil :
         (resposta'.op = "sorveteriaUpdate" /\ agora' = agora /\ sorveteriaUpdate(body)) =>
            IF sorveteria = NULL
            THEN /\ resposta'.code = "NOT_FOUND"
                 /\ sorveteria' = NULL
                 /\ contadores' = contadores
            ELSE /\ resposta'.code = "OK"
                 /\ resposta'.valor = sorveteria'
                 /\ DOMAIN sorveteria' = DOMAIN sorveteria
                 /\ \A k \in DOMAIN sorveteria :
                       IF k \in CamposDoUpdate \cap DOMAIN body
                       THEN sorveteria'[k] = body[k]
                       ELSE k \notin {"dateModified", "statusFuncionamento"}
                               => sorveteria'[k] = sorveteria[k]
                 /\ sorveteria'.dateModified = agora
                 /\ sorveteria'.statusFuncionamento \in {"aberto", "fechado"}
                 /\ contadores' = contadores]_vars

\* C12 witness: a partial update of the name alone answered after the clock
\* advanced; the special hours of an earlier update, a photo, an approved
\* testimonial and a promotion are still stored.
C12_SoONomeMudou ==
    /\ sorveteria # NULL
    /\ resposta.op = "sorveteriaUpdate"
    /\ resposta.code = "OK"
    /\ resposta.em = sorveteria.dateModified
    /\ sorveteria.dateCreated < sorveteria.dateModified
    /\ sorveteria.nomeSorveteria = "Tommasi Sorvetes"
    /\ sorveteria.horariosEspeciais = <<AbertoHoje>>
    /\ Len(sorveteria.fotosAmbiente) = 1
    /\ sorveteria.totalAvaliacoes = 1
    /\ Len(sorveteria.promocoesAtivas) = 1

\* The spellings of a keyword that contain it once lower-cased.
Grafias(k) ==
    CASE k = "origem" -> {"origem", "ORIGEM", "Origem"}
      [] k = "tradição" -> {"tradição", "TRADIÇÃO", "Tradição"}
      [] k = "qualidade" -> {"qualidade", "QUALIDADE", "Qualidade"}
      [] k = "atendimento" -> {"atendimento", "ATENDIMENTO", "Atendimento"}

FaltamNaHistoria(h) ==
    {k \in {"origem", "tradição", "qualidade"} : h.inclui \cap Grafias(k) = {}}

FaltamNosDiferenciais(ds) ==
    {k \in {"qualidade", "tradição", "atendimento"} :
        \A i \in 1..Len(ds) : ds[i].inclui \cap Grafias(k) = {}}

HistoriaNosLimites(h) == h.len >= 200 /\ h.len <= 800

DiferenciaisNosLimites(ds) ==
    /\ Len(ds) >= 3 /\ Len(ds) <= 6
    /\ \A i \in 1..Len(ds) : ds[i].len <= 100

\* C13: on an existing Profile a partial update whose history or
\* differentiators are within the length bounds succeeds and stores them,
\* whatever required keywords they lack.
C13_UpdateSemRegras ==
    [][\A body \in UpdateBodiesValidacao :
         ( /\ sorveteria # NULL
           /\ "historiaSorveteria" \in DOMAIN body
                 => HistoriaNosLimites(body.historiaSorveteria)
           /\ "diferenciais" \in DOMAIN body => DiferenciaisNosLimites(body.diferenciais)
           /\ sorveteriaUpdate(body) )
         => /\ resposta'.code = "OK"
            /\ \A k \in DOMAIN body : sorveteria'[k] = body[k]]_vars

\* C13 witness: after a partial update the stored history has none of the
\* three keywords and the stored differentiators none of theirs.
C13_PerfilSemPalavras ==
    /\ sorveteria # NULL
    /\ resposta.op = "sorveteriaUpdate"
    /\ resposta.code = "OK"
    /\ FaltamNaHistoria(sorveteria.historiaSorveteria) = {"origem", "tradição", "qualidade"}
    /\ FaltamNosDiferenciais(sorveteria.diferenciais)
           = {"qualidade", "tradição", "atendimento"}

\* The keywords a content-rule failure names.
Nomeados(falha) == {falha.faltam[i] : i \in 1..Len(falha.faltam)}

\* C14: create-or-update with a payload within the structural bounds whose
\* history lacks required keywords (in any case) fails VALIDATION_ERROR, names
\* exactly the keywords that lack, and leaves the store as it was.
C14_NomeiaOsQueFaltam ==
    [][\A body \in CreateBodiesValidacao :
         ( /\ Len(body.nomeSorveteria) >= 1
           /\ HistoriaNosLimites(body.historiaSorveteria)
           /\ DiferenciaisNosLimites(body.diferenciais)
           /\ FaltamNaHistoria(body.historiaSorveteria) # {}
           /\ sorveteriaCreateOrUpdate(body) )
         => /\ resposta'.code = "VALIDATION_ERROR"
            /\ Nomeados(resposta'.valor) = FaltamNaHistoria(body.historiaSorveteria)
            /\ sorveteria' = sorveteria]_vars

\* C14 witness: with a Profile stored, a create-or-update failed naming
\* "qualidade" alone.
C14_FaltaQualidade ==
    /\ sorveteria # NULL
    /\ resposta.op = "sorveteriaCreateOrUpdate"
    /\ resposta.code = "VALIDATION_ERROR"
    /\ resposta.valor.message = "História deve incluir"
    /\ resposta.valor.faltam = <<"qualidade">>

\* A step in which an operation answered with success on a Profile.
RespondeuComSucesso ==
    /\ agora' = agora
    /\ resposta'.code = "OK"
    /\ sorveteria' # NULL

RemoveuPromocoes ==
    /\ resposta'.op = "sorveteriaRemovePromocoesVencidas"
    /\ resposta'.valor.removed >= 1

C16_ValidacaoComDetalhes ==
    resposta.code = "VALIDATION_ERROR" => resposta.valor.details # NULL

\* C17: the expiry sweep and the status recompute never answer with a
\* failure, with or without a Profile; without one the sweep returns 0; with
\* one the recompute returns the status the Profile then has.
C17_ManutencaoNuncaFalha ==
    /\ resposta.op \in {"sorveteriaRemovePromocoesVencidas", "sorveteriaUpdateStatus"}
          => resposta.code = "OK"
    /\ (resposta.op = "sorveteriaRemovePromocoesVencidas" /\ sorveteria = NULL)
          => resposta.valor.removed = 0
    /\ (resposta.op = "sorveteriaUpdateStatus" /\ sorveteria # NULL)
          => resposta.valor.status = sorveteria.statusFuncionamento

\* C17 witness: the recompute answered with success while no Profile exists.
C17_RecalculoSemPerfil ==
    /\ sorveteria = NULL
    /\ resposta.op = "sorveteriaUpdateStatus"
    /\ resposta.code = "OK"

IdsDistintos(itens) ==
    \A i, j \in 1..Len(itens) : itens[i].id = itens[j].id => i = j

IdsAte(itens, n) == \A i \in 1..Len(itens) : itens[i].id >= 1 /\ itens[i].id <= n

\* A step in which op answered with a new item.
Emitiu(op) == resposta'.op = op /\ resposta'.code = "OK" /\ agora' = agora

\* C18: the stored items of one kind have distinct identifiers, none above the
\* kind's counter; a counter never goes down; and each add returns the counter
\* raised by that add, above the counter before and above every stored
\* identifier, so no identifier is issued twice, whatever was removed, swept
\* or reset in between.
C18_IdsNuncaReusados ==
    /\ [](sorveteria # NULL =>
            /\ IdsDistintos(sorveteria.fotosAmbiente)
            /\ IdsDistintos(sorveteria.depoimentos)
            /\ IdsDistintos(sorveteria.promocoesAtivas)
            /\ IdsAte(sorveteria.fotosAmbiente, fotosCounter)
            /\ IdsAte(sorveteria.depoimentos, depoimentosCounter)
            /\ IdsAte(sorveteria.promocoesAtivas, promocoesCounter))
    /\ [][/\ fotosCounter' >= fotosCounter
          /\ depoimentosCounter' >= depoimentosCounter
          /\ promocoesCounter' >= promocoesCounter]_vars
    /\ [][/\ Emitiu("sorveteriaAddFoto")
             => resposta'.valor.id > fotosCounter /\ fotosCounter' = resposta'.valor.id
          /\ Emitiu("sorveteriaAddDepoimento")
             => /\ resposta'.valor.id > depoimentosCounter
                /\ depoimentosCounter' = resposta'.valor.id
          /\ Emitiu("sorveteriaAddPromocao")
             => /\ resposta'.valor.id > promocoesCounter
                /\ promocoesCounter' = resposta'.valor.id]_vars

\* C18 witness: the second photo identifier was issued for the only photo in
\* the gallery, and the second promotion identifier was issued earlier
\* although no promotion is stored.
C18_SegundoIdPrimeiraPosicao ==
    /\ sorveteria # NULL
    /\ resposta.op = "sorveteriaAddFoto"
    /\ resposta.code = "OK"
    /\ resposta.valor.id = 2
    /\ resposta.valor.ordem = 1
    /\ promocoesCounter = 2
    /\ sorveteria.promocoesAtivas = <<>>

\* C19: an existing Profile's operating status is "aberto" or "fechado" after
\* every sequence of service operations, also after a partial update whose
\* body asks for "abrindo_em_breve"; a Profile returned by get,
\* create-or-update or partial update carries one of the two, and so does the
\* status string the recompute returns for an existing Profile.
C19_NuncaAbrindoEmBreve ==
    /\ sorveteria # NULL => sorveteria.statusFuncionamento \in {"aberto", "fechado"}
    /\ (/\ resposta.op \in {"sorveteriaGet", "sorveteriaCreateOrUpdate", "sorveteriaUpdate"}
        /\ resposta.code = "OK")
          => resposta.valor.statusFuncionamento \in {"aberto", "fechado"}
    /\ (resposta.op = "sorveteriaUpdateStatus" /\ sorveteria # NULL)
          => resposta.valor.status \in {"aberto", "fechado"}

\* C19 witness: the recompute answered "fechado" for a Profile whose day has
\* no special hours and whose opening time is still ahead.
C19_FechadoAntesDeAbrir ==
    /\ sorveteria # NULL
    /\ resposta.op = "sorveteriaUpdateStatus"
    /\ resposta.valor.status = "fechado"
    /\ findHorarioEspecial(sorveteria.horariosEspeciais, toISODate(agora)) = NULL
    /\ LET horarioDia == sorveteria.horariosSemana[DiasSemana[getDay(agora, fuso) + 1]]
       IN  ~horarioDia.fechado /\ StrLt(horaAtual(agora, fuso), horarioDia.abertura)

\* C20: get fails NOT_FOUND and changes nothing when no Profile exists; on a
\* Profile it answers with the stored Profile, whose operating status is the
\* one the weekly and special hours give at the current instant, and changes
\* no other field (the modified timestamp included) and no counter.
C20_GetSoRecalcula ==
    [][(resposta'.op = "sorveteriaGet" /\ agora' = agora /\ sorveteriaGet) =>
          IF sorveteria = NULL
          THEN /\ resposta'.code = "NOT_FOUND"
               /\ sorveteria' = NULL
               /\ contadores' = contadores
          ELSE /\ resposta'.code = "OK"
               /\ resposta'.valor = sorveteria'
               /\ DOMAIN sorveteria' = DOMAIN sorveteria
               /\ \A k \in DOMAIN sorveteria \ {"statusFuncionamento"} :
                     sorveteria'[k] = sorveteria[k]
               /\ sorveteria'.statusFuncionamento = statusCalculado(sorveteria, agora, fuso)
               /\ contadores' = contadores]_vars

\* C20 witness: a get answered after the clock advanced into the opening
\* hours returned the Profile created while closed, now "aberto", with the
\* modified timestamp of its creation.
C20_AbertoSemNovaData ==
    /\ sorveteria # NULL
    /\ resposta.op = "sorveteriaGet"
    /\ resposta.code = "OK"
    /\ resposta.valor.statusFuncionamento = "aberto"
    /\ sorveteria.dateModified = Inicio
    /\ resposta.em = Inicio + Passo

\* The list without its i-th element.
SemOElemento(itens, i) == [j \in 1..(Len(itens) - 1) |-> IF j < i THEN itens[j] ELSE itens[j + 1]]

\* C21: an added photo gets as display order the number of photos stored
\* before the add plus 1 and goes to the end of the list; a removal takes
\* the photo with the requested identifier out of the list and leaves every
\* remaining photo, its identifier and display order included, as it was.
C21_OrdemNaInsercao ==
    [][/\ Emitiu("sorveteriaAddFoto")
          => /\ resposta'.valor.ordem = Len(sorveteria.fotosAmbiente) + 1
             /\ sorveteria'.fotosAmbiente = Append(sorveteria.fotosAmbiente, resposta'.valor)
       /\ (Emitiu("sorveteriaRemoveFoto") /\ sorveteria # NULL)
          => \E i \in 1..Len(sorveteria.fotosAmbiente) :
                /\ sorveteria'.fotosAmbiente = SemOElemento(sorveteria.fotosAmbiente, i)
                /\ \A j \in 1..Len(sorveteria'.fotosAmbiente) :
                      sorveteria'.fotosAmbiente[j].id # sorveteria.fotosAmbiente[i].id]_vars

\* C21 witness: the first of three photos was removed; the two that remain
\* keep the display orders 2 and 3.
C21_RestamSegundaETerceira ==
    /\ sorveteria # NULL
    /\ resposta.op = "sorveteriaRemoveFoto"
    /\ resposta.code = "OK"
    /\ Len(sorveteria.fotosAmbiente) = 2
    /\ sorveteria.fotosAmbiente[1].id = 2 /\ sorveteria.fotosAmbiente[1].ordem = 2
    /\ sorveteria.fotosAmbiente[2].id = 3 /\ sorveteria.fotosAmbiente[2].ordem = 3

OrdensDistintas(fotos) ==
    \A i, j \in 1..Len(fotos) : fotos[i].ordem = fotos[j].ordem => i = j

\* C27: the display order is no key of the stored photos: an add to a gallery
\* in which a photo already has the display order one above the number
\* stored, as after the removal of an earlier photo, leaves two stored photos
\* with the same display order.
C27_OrdemRepetida ==
    [][( /\ Emitiu("sorveteriaAddFoto")
         /\ \E i \in 1..Len(sorveteria.fotosAmbiente) :
               sorveteria.fotosAmbiente[i].ordem = Len(sorveteria.fotosAmbiente) + 1 )
        => ~OrdensDistintas(sorveteria'.fotosAmbiente)]_vars

\* C27 witness: two photos were added, the first removed and a third added;
\* the second and the third photo are stored, both with display order 2.
C27_DuasComOrdem2 ==
    /\ sorveteria # NULL
    /\ resposta.op = "sorveteriaAddFoto"
    /\ resposta.code = "OK"
    /\ Len(sorveteria.fotosAmbiente) = 2
    /\ sorveteria.fotosAmbiente[1].id = 2 /\ sorveteria.fotosAmbiente[1].ordem = 2
    /\ sorveteria.fotosAmbiente[2].id = 3 /\ sorveteria.fotosAmbiente[2].ordem = 2

\* C22: a testimonial is stored, and returned, with the status "pendente"
\* whatever the request carries; a status update to "pendente" or "rejeitado"
\* keeps every testimonial in the list, each with its identifier, name, text,
\* rating and creation date.
C22_PendenteEConservado ==
    [][/\ Emitiu("sorveteriaAddDepoimento")
          => /\ resposta'.valor.statusModeracao = "pendente"
             /\ sorveteria'.depoimentos = Append(sorveteria.depoimentos, resposta'.valor)
       /\ ( /\ Emitiu("sorveteriaUpdateDepoimentoStatus")
            /\ resposta'.valor.statusModeracao \in {"pendente", "rejeitado"}
            /\ sorveteria # NULL )
          => /\ Len(sorveteria'.depoimentos) = Len(sorveteria.depoimentos)
             /\ \A i \in 1..Len(sorveteria.depoimentos) :
                   \A k \in {"id", "nomeCliente", "texto", "avaliacao", "dataCriacao"} :
                       sorveteria'.depoimentos[i][k] = sorveteria.depoimentos[i][k]
             /\ \E i \in 1..Len(sorveteria'.depoimentos) :
                   sorveteria'.depoimentos[i] = resposta'.valor]_vars

\* C22 witness: the first testimonial was just rejected and is stored, with
\* its rating, before a second one that is pending.
C22_RejeitadoContinuaNaLista ==
    /\ sorveteria # NULL
    /\ resposta.op = "sorveteriaUpdateDepoimentoStatus"
    /\ resposta.code = "OK"
    /\ resposta.valor.statusModeracao = "rejeitado"
    /\ Len(sorveteria.depoimentos) = 2
    /\ sorveteria.depoimentos[1] = resposta.valor
    /\ sorveteria.depoimentos[1].avaliacao = 4
    /\ sorveteria.depoimentos[2].statusModeracao = "pendente"

\* C23: add promotion answers by the first of these that applies: an invalid
\* body gives VALIDATION_ERROR, with or without a Profile; no Profile gives
\* NOT_FOUND; 3 stored promotions give LIMIT_EXCEEDED, whatever the requested
\* priority; a requested priority 1 beside a stored priority 1 gives
\* PRIORITY_CONFLICT; otherwise the add succeeds.
C23_OrdemDasFalhas ==
    [][\A body \in PromocaoBodies :
         ( /\ resposta'.op = "sorveteriaAddPromocao"
           /\ agora' = agora
           /\ sorveteriaAddPromocao(body, MaxPromocaoIds) )
         => resposta'.code =
               IF body.prioridade < 1 THEN "VALIDATION_ERROR"
               ELSE IF sorveteria = NULL THEN "NOT_FOUND"
               ELSE IF Len(sorveteria.promocoesAtivas) >= 3 THEN "LIMIT_EXCEEDED"
               ELSE IF body.prioridade = 1 /\ Prioritarias(sorveteria.promocoesAtivas) # {}
               THEN "PRIORITY_CONFLICT"
               ELSE "OK"]_vars

\* C23 witness: an add of a promotion was refused for its body while no
\* Profile exists.
C23_InvalidaSemPerfil ==
    /\ sorveteria = NULL
    /\ resposta.op = "sorveteriaAddPromocao"
    /\ resposta.code = "VALIDATION_ERROR"

Falhas == {"VALIDATION_ERROR", "NOT_FOUND", "LIMIT_EXCEEDED", "PRIORITY_CONFLICT"}

C25_PedidosEmSerie ==
    /\ [](sorveteria # NULL =>
            /\ Len(sorveteria.fotosAmbiente) <= 12
            /\ Cardinality(Prioritarias(sorveteria.promocoesAtivas)) <= 1)
    /\ [][\A c \in Clientes :
            (pedidos[c].fase = "recebido" /\ pedidos'[c] # pedidos[c])
            => /\ pedidos'[c].fase = "aguarda"
               /\ pedidos'[c].code = resposta'.code
               /\ Servico(pedidos[c].op)
               /\ resposta'.code = "OK" =>
                     IF pedidos[c].op = "sorveteriaAddFoto"
                     THEN /\ Len(sorveteria.fotosAmbiente) < 12
                          /\ Len(sorveteria'.fotosAmbiente) = Len(sorveteria.fotosAmbiente) + 1
                     ELSE Prioritarias(sorveteria.promocoesAtivas) = {}]_vars

\* C25 witness: two adds of a photo were in flight together at 11 stored
\* photos and both have been served: one succeeded, the other was refused
\* for the limit.
C25_UmEntraOutroNao ==
    /\ sorveteria # NULL
    /\ Len(sorveteria.fotosAmbiente) = 12
    /\ pedidos["c1"] = [fase |-> "aguarda", op |-> "sorveteriaAddFoto", code |-> "OK"]
    /\ pedidos["c2"] = [fase |-> "aguarda", op |-> "sorveteriaAddFoto", code |-> "LIMIT_EXCEEDED"]

\* C25 second witness: two adds of a promotion of priority 1 were in flight
\* together and both have been served: one succeeded, the other was refused
\* for the priority.
C25_UmaPrioritariaSo ==
    /\ sorveteria # NULL
    /\ pedidos["c1"] = [fase |-> "aguarda", op |-> "sorveteriaAddPromocao", code |-> "OK"]
    /\ pedidos["c2"] = [fase |-> "aguarda", op |-> "sorveteriaAddPromocao",
                        code |-> "PRIORITY_CONFLICT"]

\* The priority of the stored promotion a card was rendered from.
PrioridadeDoCartao(s, cartao) ==
    LET i == CHOOSE j \in 1..Len(s.promocoesAtivas) : s.promocoesAtivas[j].id = cartao.key
    IN  s.promocoesAtivas[i].prioridade

\* C26: the cards the promotions section renders are in non-decreasing order
\* of priority, whatever the order in which the promotions were added.
C26_CartoesPorPrioridade ==
    sorveteria # NULL =>
        LET cartoes == PromocoesSection(sorveteria)
        IN  \A i, j \in 1..Len(cartoes) :
                i < j => PrioridadeDoCartao(sorveteria, cartoes[i])
                            <= PrioridadeDoCartao(sorveteria, cartoes[j])

\* The first special-hours entry dated today is open but lacks a time.
PrimeiroDeHojeIncompleto(s, t) ==
    /\ EspeciaisDeHoje(s, t) # {}
    /\ ~PrimeiroEspecialDeHoje(s, t).fechado
    /\ \/ PrimeiroEspecialDeHoje(s, t).abertura = StrNull
       \/ PrimeiroEspecialDeHoje(s, t).fechamento = StrNull

\* C28: when the first special-hours entry dated today has the closed flag
\* unset and lacks its opening or its closing time, the recomputed status is
\* the one the same Profile has without any special hours, that is the one
\* today's weekly-hours entry gives; later entries dated today play no part.
C28_IncompletoIgnorado ==
    (sorveteria # NULL /\ PrimeiroDeHojeIncompleto(sorveteria, agora))
    => /\ sorveteria.statusFuncionamento
             = statusCalculado([sorveteria EXCEPT !.horariosEspeciais = <<>>], agora, fuso)
       /\ resposta.op = "sorveteriaUpdateStatus"
             => resposta.valor.status = sorveteria.statusFuncionamento

\* C28 witness: the first entry dated today has no closing time, the second
\* one would give open at this time of day, the weekly hours give closed, and
\* the status returned is closed.
C28_FechadoPeloHorarioSemanal ==
    /\ sorveteria # NULL
    /\ resposta.op = "sorveteriaUpdateStatus"
    /\ PrimeiroDeHojeIncompleto(sorveteria, agora)
    /\ sorveteria.horariosEspeciais[2] = AbertoHoje
    /\ DentroDoHorario(horaAtual(agora, fuso), AbertoHoje.abertura, AbertoHoje.fechamento)
    /\ ~HorarioDeHoje(sorveteria, agora, fuso).fechado
    /\ resposta.valor.status = "fechado"

\* The day of the week, 0 = Sunday, of a calendar date of March 2024.
DiaDaSemanaDa(data) == ((DataNumero(data) % 100) - 9 + 6) % 7

\* C29: at a recompute the calendar date matched against the special-hours
\* entries is the day whose day of the week and time of day are used for the
\* weekly hours.
C29_DataEDiaDoMesmoDia ==
    (resposta.op = "sorveteriaUpdateStatus" /\ sorveteria # NULL)
    => DiaDaSemanaDa(toISODate(resposta.em)) = getDay(resposta.em, fuso)

TodasVencidas(ps, t) == \A i \in 1..Len(ps) : Vencida(ps[i], t)

\* C30: between sweeps an expired stored promotion counts like any other: an
\* add to 3 stored promotions fails LIMIT_EXCEEDED also when all 3 have
\* expired; an add of priority 1 beside a stored priority 1 fails
\* PRIORITY_CONFLICT also when that one has expired; and a valid add that
\* meets neither is accepted and stored even when its own expiry date is
\* already past.
C30_VencidaAindaConta ==
    [][\A body \in PromocaoBodies :
         ( /\ resposta'.op = "sorveteriaAddPromocao"
           /\ agora' = agora
           /\ sorveteria # NULL
           /\ body.prioridade >= 1
           /\ sorveteriaAddPromocao(body, MaxPromocaoIds) )
         => LET ps == sorveteria.promocoesAtivas IN
            /\ Len(ps) = 3 => resposta'.code = "LIMIT_EXCEEDED"
            /\ (Len(ps) < 3 /\ body.prioridade = 1 /\ Prioritarias(ps) # {})
                  => resposta'.code = "PRIORITY_CONFLICT"
            /\ (Len(ps) < 3 /\ (body.prioridade # 1 \/ Prioritarias(ps) = {}))
                  => /\ resposta'.code = "OK"
                     /\ resposta'.valor.dataValidade = body.dataValidade
                     /\ Len(sorveteria'.promocoesAtivas) = Len(ps) + 1]_vars

\* C30 witness: an add of priority 1 was refused for the priority on the day
\* after the expiry date of every stored promotion.
C30_ConflitoComVencida ==
    /\ sorveteria # NULL
    /\ resposta.op = "sorveteriaAddPromocao"
    /\ resposta.code = "PRIORITY_CONFLICT"
    /\ resposta.em = agora
    /\ TodasVencidas(sorveteria.promocoesAtivas, agora)

\* C30 second witness: a promotion was accepted on the day after its own
\* expiry date.
C30_AceitaJaVencida ==
    /\ sorveteria # NULL
    /\ resposta.op = "sorveteriaAddPromocao"
    /\ resposta.code = "OK"
    /\ resposta.em = agora
    /\ Vencida(resposta.valor, agora)

====
